---- MODULE Spec2Model ----
(***************************************************************************)
(* Circuit (cirq/circuits/circuit.py): a mutable list of Moments and the   *)
(* strategy-driven insertion of operations into it.                        *)
(*                                                                         *)
(* A circuit is a sequence of moments (Python index m is TLA+ index m+1).  *)
(* A moment is the tuple of its operations.  An operation is modelled by   *)
(* the set of qubits it acts on plus a tag: its 1-based position in the    *)
(* flattened input of the call in progress, 0 for operations that were in  *)
(* the circuit before the call.                                            *)
(***************************************************************************)
EXTENDS Integers, Sequences, FiniteSets, TLC

VARIABLES
    moments,    \* Circuit._moments
    pc,         \* "idle", the loop a call is in ("insert", "range"), or "done"
    ops,        \* the flattened operation list the running loop iterates
    op_index,   \* number of operations of `ops` already consumed
    k,          \* insert: the insertion point
    strategy,   \* insert: the strategy variable (reassigned at line 450)
    i,          \* insert_into_range: the cursor
    ret,        \* outcome of the most recent call (value or exception)
    call,       \* the arguments of the most recent call and the circuit before it
    step,       \* the most recent loop iteration: its inputs and the index p it chose
    heap        \* the list objects of several circuits (used where identity matters)

vars == <<moments, pc, ops, op_index, k, strategy, i, ret, call, step, heap>>

----------------------------------------------------------------------------
(* Bounds of the model *)

MaxMoments == 4
MaxOps == 2

Qubits == {"a", "b"}

Strategies == {"NEW", "NEW_THEN_INLINE", "INLINE", "EARLIEST"}

----------------------------------------------------------------------------
(* Values *)

None == [kind |-> "None"]
Some(v) == [kind |-> "int", val |-> v]
Raise(e) == [kind |-> e]

Min(x, y) == IF x <= y THEN x ELSE y
Max(x, y) == IF x >= y THEN x ELSE y

QubitSets == (SUBSET Qubits) \ {{}}

Operation(tag, qubits) == [tag |-> tag, qubits |-> qubits]

\* Flattened operation trees of at most n operations, tagged by position.
OpLists(n) ==
    UNION {{[j \in 1..m |-> Operation(j, f[j])] : f \in [1..m -> QubitSets]} : m \in 0..n}

MomentQubits(m) == UNION {m[j].qubits : j \in 1..Len(m)}

Disjoint(m) ==
    \A x, y \in 1..Len(m) : x # y => m[x].qubits \cap m[y].qubits = {}

\* Moment values a caller can construct: operations on pairwise disjoint qubits.
Moments ==
    {m \in UNION {[1..n -> {Operation(0, q) : q \in QubitSets}] : n \in 0..Cardinality(Qubits)} :
        Disjoint(m)}

operates_on(m, qubits) == MomentQubits(m) \cap qubits # {}

with_operation(m, op) == Append(m, op)

Untagged(ms) ==
    [x \in 1..Len(ms) |-> [y \in 1..Len(ms[x]) |-> Operation(0, ms[x][y].qubits)]]

----------------------------------------------------------------------------
(* Python list primitives used on _moments *)

\* list.insert(index, x): a negative index counts from the end, and an index
\* outside the list is clamped to its ends.
ListInsert(s, index, x) ==
    LET n == Len(s)
        j == IF index < 0 THEN Max(index + n, 0) ELSE Min(index, n)
    IN  SubSeq(s, 1, j) \o <<x>> \o SubSeq(s, j + 1, n)

\* while p >= len(self._moments): self._moments.append(Moment())
PadTo(s, p) ==
    IF p >= Len(s) THEN s \o [j \in 1..(p + 1 - Len(s)) |-> <<>>] ELSE s

----------------------------------------------------------------------------
(* Queries *)

has_op_at(ms, moment_index, qubits) ==
    /\ 0 <= moment_index
    /\ moment_index < Len(ms)
    /\ operates_on(ms[moment_index + 1], qubits)

\* indices is the sequence of moment indices in scan order
first_moment_operating_on(ms, qubits, indices) ==
    LET hits == {j \in 1..Len(indices) : has_op_at(ms, indices[j], qubits)}
    IN  IF hits = {} THEN None
        ELSE Some(indices[CHOOSE j \in hits : \A h \in hits : j <= h])

\* Faulty variant: the backward scan starts at end_moment_index itself
\* (end_moment_index - k instead of end_moment_index - k - 1).
prev_moment_operating_on_OffByOne(ms, qubits, end_moment_index, max_distance) ==
    LET end0 == IF end_moment_index = None THEN Len(ms) ELSE end_moment_index.val
        dist0 == IF max_distance = None THEN Len(ms)
                 ELSE Min(end0, max_distance.val)
        d == end0 - Len(ms)
        end1 == IF end0 > Len(ms) THEN end0 - d ELSE end0
        dist1 == IF end0 > Len(ms) THEN dist0 - d ELSE dist0
    IN  IF max_distance # None /\ max_distance.val < 0 THEN Raise("ValueError")
        ELSE IF dist1 <= 0 THEN None
        ELSE first_moment_operating_on(
                 ms, qubits, [j \in 1..dist1 |-> end1 - (j - 1)])

prev_moment_operating_on(ms, qubits, end_moment_index, max_distance) ==
    LET end0 == IF end_moment_index = None THEN Len(ms) ELSE end_moment_index.val
        dist0 == IF max_distance = None THEN Len(ms)
                 ELSE Min(end0, max_distance.val)
        d == end0 - Len(ms)
        end1 == IF end0 > Len(ms) THEN end0 - d ELSE end0
        dist1 == IF end0 > Len(ms) THEN dist0 - d ELSE dist0
    IN  IF max_distance # None /\ max_distance.val < 0 THEN Raise("ValueError")
        ELSE IF dist1 <= 0 THEN None
        ELSE first_moment_operating_on(
                 ms, qubits, [j \in 1..dist1 |-> end1 - (j - 1) - 1])

----------------------------------------------------------------------------
(* _pick_or_create_inserted_op_moment_index: the moment list after the     *)
(* call and the index it returns                                           *)

Picked(ms, p) == [moments |-> ms, p |-> p]

\* Faulty variant: the new moment is appended instead of inserted at the
\* splitter index.
PickNew_Append(ms, splitter_index, op) ==
    Picked(Append(ms, <<>>), Len(ms))

PickNew(ms, splitter_index, op) ==
    Picked(ListInsert(ms, splitter_index, <<>>), splitter_index)

\* Faulty variant: the previous moment is taken without asking whether it
\* already operates on the qubits.
PickInline_NoOccupancyCheck(ms, splitter_index, op) ==
    IF 0 <= splitter_index - 1 /\ splitter_index - 1 < Len(ms)
    THEN Picked(ms, splitter_index - 1)
    ELSE PickNew(ms, splitter_index, op)

PickInline(ms, splitter_index, op) ==
    IF /\ ~has_op_at(ms, splitter_index - 1, op.qubits)
       /\ 0 <= splitter_index - 1
       /\ splitter_index - 1 < Len(ms)
    THEN Picked(ms, splitter_index - 1)
    ELSE PickNew(ms, splitter_index, op)

\* Faulty variant: the moment at the splitter index is not asked whether it
\* already operates on the qubits.
PickEarliest_NoOccupancyCheck(ms, splitter_index, op) ==
    LET p == prev_moment_operating_on(ms, op.qubits, Some(splitter_index), None)
    IN  Picked(ms, IF p # None THEN p.val + 1 ELSE 0)

PickEarliest(ms, splitter_index, op) ==
    IF ~has_op_at(ms, splitter_index, op.qubits)
    THEN LET p == prev_moment_operating_on(ms, op.qubits, Some(splitter_index), None)
         IN  Picked(ms, IF p # None THEN p.val + 1 ELSE 0)
    ELSE PickInline(ms, splitter_index, op)

pick_or_create_inserted_op_moment_index(ms, splitter_index, op, strat) ==
    CASE strat \in {"NEW", "NEW_THEN_INLINE"} -> PickNew(ms, splitter_index, op)
      [] strat = "INLINE" -> PickInline(ms, splitter_index, op)
      [] strat = "EARLIEST" -> PickEarliest(ms, splitter_index, op)
      [] OTHER -> Raise("ValueError")

----------------------------------------------------------------------------
(* State *)

NoCall == [name |-> "none"]
NoStep == [n |-> 0]
NoHeap == [list_of |-> <<>>, contents |-> <<>>]

Init ==
    /\ moments = <<>>
    /\ pc = "idle"
    /\ ops = <<>>
    /\ op_index = 0
    /\ k = 0
    /\ strategy = "NEW_THEN_INLINE"
    /\ i = 0
    /\ ret = None
    /\ call = NoCall
    /\ step = NoStep
    /\ heap = NoHeap

----------------------------------------------------------------------------
(* Circuit.insert *)

\* not 0 <= index <= len(self._moments), line 439
IndexOk(ms, index) == 0 <= index /\ index <= Len(ms)

\* Faulty variant: k = p + 1
NextInsertionPoint_NoMax(splitter_index, p) == p + 1

\* k = max(k, p + 1), line 448
NextInsertionPoint(splitter_index, p) == Max(splitter_index, p + 1)

\* Faulty variant: the strategy is never switched.
SwitchStrategy_Never(strat) == strat

\* lines 449-450
SwitchStrategy(strat) ==
    IF strat = "NEW_THEN_INLINE" THEN "INLINE" ELSE strat

\* insert(index, moment): lines 435-437
InsertMoment(index, m, strat) ==
    /\ pc = "idle"
    /\ Len(moments) < MaxMoments
    /\ call' = [name |-> "insert", kind |-> "moment", index |-> index,
                moment |-> m, strategy |-> strat, before |-> moments]
    /\ moments' = ListInsert(moments, index, m)
    /\ ret' = Some(index + 1)
    /\ pc' = "done"
    /\ UNCHANGED <<ops, op_index, k, strategy, i, step>>
    /\ UNCHANGED heap

\* The index check and loop set-up of insert(index, op_tree, strategy),
\* lines 439-443.
EnterInsert(index, operations, strat) ==
    IF ~IndexOk(moments, index)
    THEN /\ ret' = Raise("IndexError")
         /\ pc' = "done"
         /\ UNCHANGED <<ops, op_index, k, strategy>>
    ELSE /\ pc' = "insert"
         /\ k' = index
         /\ ops' = operations
         /\ op_index' = 0
         /\ strategy' = strat
         /\ UNCHANGED ret

InsertBegin(index, operations, strat) ==
    /\ pc = "idle"
    /\ Len(moments) + Len(operations) <= MaxMoments
    /\ call' = [name |-> "insert", kind |-> "ops", index |-> index,
                ops |-> operations, strategy |-> strat, before |-> moments]
    /\ EnterInsert(index, operations, strat)
    /\ UNCHANGED <<moments, i, step>>
    /\ UNCHANGED heap

\* One iteration of the for loop, lines 443-450.
InsertStep ==
    /\ pc = "insert"
    /\ op_index < Len(ops)
    /\ LET op == ops[op_index + 1]
           picked == pick_or_create_inserted_op_moment_index(moments, k, op, strategy)
           raised == picked = Raise("ValueError")
           p == IF raised THEN -1 ELSE picked.p
           padded == IF raised THEN moments ELSE PadTo(picked.moments, p)
       IN  /\ step' = [n |-> step.n + 1, loop |-> "insert", op |-> op, k |-> k,
                       strategy |-> strategy, p |-> p, before |-> moments]
           /\ IF raised
              THEN \* line 409: the strategy is none of the four
                   /\ ret' = picked
                   /\ pc' = "done"
                   /\ UNCHANGED <<moments, k, strategy, op_index>>
              ELSE IF operates_on(padded[p + 1], op.qubits)
              THEN \* Moment.with_operation refuses an overlapping operation
                   /\ moments' = padded
                   /\ ret' = Raise("ValueError")
                   /\ pc' = "done"
                   /\ UNCHANGED <<k, strategy, op_index>>
              ELSE /\ moments' = [padded EXCEPT ![p + 1] = with_operation(@, op)]
                   /\ k' = NextInsertionPoint(k, p)
                   /\ strategy' = SwitchStrategy(strategy)
                   /\ op_index' = op_index + 1
                   /\ UNCHANGED <<ret, pc>>
    /\ UNCHANGED <<ops, i, call>>
    /\ UNCHANGED heap

\* return k, line 451; append (line 505) drops the value
InsertReturn ==
    /\ pc = "insert"
    /\ op_index >= Len(ops)
    /\ ret' = IF call.name = "append" THEN None ELSE Some(k)
    /\ pc' = "done"
    /\ UNCHANGED <<moments, ops, op_index, k, strategy, i, call, step>>
    /\ UNCHANGED heap

----------------------------------------------------------------------------
(* Circuit.append: insert at len(self._moments), lines 495-505 *)

AppendMoment(m, strat) ==
    /\ pc = "idle"
    /\ Len(moments) < MaxMoments
    /\ call' = [name |-> "append", kind |-> "moment", index |-> Len(moments),
                moment |-> m, strategy |-> strat, before |-> moments]
    /\ moments' = ListInsert(moments, Len(moments), m)
    /\ ret' = None
    /\ pc' = "done"
    /\ UNCHANGED <<ops, op_index, k, strategy, i, step>>
    /\ UNCHANGED heap

AppendBegin(operations, strat) ==
    /\ pc = "idle"
    /\ Len(moments) + Len(operations) <= MaxMoments
    /\ call' = [name |-> "append", kind |-> "ops", index |-> Len(moments),
                ops |-> operations, strategy |-> strat, before |-> moments]
    /\ EnterInsert(Len(moments), operations, strat)
    /\ UNCHANGED <<moments, i, step>>
    /\ UNCHANGED heap

----------------------------------------------------------------------------
(* Circuit.insert_into_range *)

\* Faulty variant: start and end are not compared with each other.
RangeOk_NoOrder(ms, start, end) == 0 <= start /\ end <= Len(ms)

\* not 0 <= start <= end <= len(self), line 474
RangeOk(ms, start, end) == 0 <= start /\ start <= end /\ end <= Len(ms)

\* lines 474-480
RangeBegin(operations, start, end) ==
    /\ pc = "idle"
    /\ Len(moments) + Len(operations) <= MaxMoments
    /\ call' = [name |-> "insert_into_range", start |-> start, end |-> end,
                ops |-> operations, before |-> moments]
    /\ IF ~RangeOk(moments, start, end)
       THEN /\ ret' = Raise("IndexError")
            /\ pc' = "done"
            /\ UNCHANGED <<ops, op_index, i>>
       ELSE /\ pc' = "range"
            /\ ops' = operations
            /\ op_index' = 0
            /\ i' = start
            /\ UNCHANGED ret
    /\ UNCHANGED <<moments, k, strategy, step>>
    /\ UNCHANGED heap

\* Faulty variant: `if` for `while`, the cursor advances at most once.
Advance_Once(ms, cursor, end, op) ==
    IF cursor < end /\ operates_on(ms[cursor + 1], op.qubits) THEN cursor + 1
    ELSE cursor

\* The cursor after the inner while loop, lines 483-484.
Advance(ms, cursor, end, op) ==
    LET stops == {j \in cursor..end : j >= end \/ ~operates_on(ms[j + 1], op.qubits)}
    IN  IF cursor >= end THEN cursor
        ELSE CHOOSE j \in stops : \A h \in stops : j <= h

\* One iteration of the outer while loop, lines 481-488; on break the
\* remainder goes to insert(end, operations[op_index:]), line 493.
RangeStep ==
    /\ pc = "range"
    /\ op_index < Len(ops)
    /\ LET op == ops[op_index + 1]
           i1 == Advance(moments, i, call.end, op)
       IN  /\ i' = i1
           /\ step' = [n |-> step.n + 1, loop |-> "range", op |-> op, i |-> i,
                       p |-> i1, before |-> moments]
           /\ IF i1 >= call.end
              THEN /\ EnterInsert(call.end, SubSeq(ops, op_index + 1, Len(ops)),
                                  "NEW_THEN_INLINE")
                   /\ UNCHANGED moments
              ELSE /\ moments' = [moments EXCEPT ![i1 + 1] = with_operation(@, op)]
                   /\ op_index' = op_index + 1
                   /\ UNCHANGED <<pc, ops, k, strategy, ret>>
    /\ UNCHANGED call
    /\ UNCHANGED heap

\* return end, lines 490-491
RangeReturn ==
    /\ pc = "range"
    /\ op_index >= Len(ops)
    /\ ret' = Some(call.end)
    /\ pc' = "done"
    /\ UNCHANGED <<moments, ops, op_index, k, strategy, i, call, step>>
    /\ UNCHANGED heap

----------------------------------------------------------------------------

\* The caller takes the outcome; the call's locals and bookkeeping go away.
Discard ==
    /\ pc = "done"
    /\ pc' = "idle"
    /\ moments' = Untagged(moments)
    /\ ops' = <<>>
    /\ op_index' = 0
    /\ k' = 0
    /\ strategy' = "NEW_THEN_INLINE"
    /\ i' = 0
    /\ ret' = None
    /\ call' = NoCall
    /\ step' = NoStep
    /\ UNCHANGED heap

\* Arguments of the calls: indexes from one below to one above the legal
\* range, and operation lists that cannot grow the circuit past MaxMoments.
Indexes == -1..(Len(moments) + 1)
Inputs == OpLists(Min(MaxOps, MaxMoments - Len(moments)))

Next ==
    \/ /\ pc = "idle"
       /\ \E index \in Indexes, m \in Moments :
              InsertMoment(index, m, "NEW_THEN_INLINE")
    \/ /\ pc = "idle"
       /\ \E index \in Indexes, operations \in Inputs, strat \in Strategies :
              InsertBegin(index, operations, strat)
    \/ InsertStep
    \/ InsertReturn
    \/ /\ pc = "idle"
       /\ \E m \in Moments : AppendMoment(m, "NEW_THEN_INLINE")
    \/ /\ pc = "idle"
       /\ \E operations \in Inputs, strat \in Strategies :
              AppendBegin(operations, strat)
    \/ /\ pc = "idle"
       /\ \E operations \in Inputs, start \in Indexes, end \in Indexes :
              RangeBegin(operations, start, end)
    \/ RangeStep
    \/ RangeReturn
    \/ Discard

Spec == Init /\ [][Next]_vars

----------------------------------------------------------------------------
(* Vocabulary of the properties *)

\* Moment indices (0-based) of ms that hold an operation tagged t.
Where(ms, t) ==
    {m \in 0..(Len(ms) - 1) : \E y \in 1..Len(ms[m + 1]) : ms[m + 1][y].tag = t}

\* Moment m (0-based) of ms has an operation on one of the qubits.
Touches(ms, m, qubits) ==
    \E y \in 1..Len(ms[m + 1]) : ms[m + 1][y].qubits \cap qubits # {}

\* ms with moment x put in front of position j (0-based), nothing clamped.
InsertedAt(ms, j, x) == SubSeq(ms, 1, j) \o <<x>> \o SubSeq(ms, j + 1, Len(ms))

\* ms with operation op added to moment m (0-based).
AddedAt(ms, m, op) == [ms EXCEPT ![m + 1] = Append(@, op)]

Largest(S) == CHOOSE x \in S : \A y \in S : y <= x
Smallest(S) == CHOOSE x \in S : \A y \in S : x <= y

Returned == pc = "done" /\ ret.kind \in {"int", "None"}
Failed(e) == pc = "done" /\ ret = Raise(e)

\* The most recent loop iteration was one of insert's for loop.
InsertStepped == pc \in {"insert", "done"} /\ step.n > 0 /\ step.loop = "insert"

\* The most recent loop iteration was one of insert_into_range's while loop.
RangeStepped == step.n > 0 /\ step.loop = "range"

----------------------------------------------------------------------------
(* C1: insert fails with IndexError whenever index < 0 or index >          *)
(* len(circuit), whether the argument is an operation tree or a Moment,   *)
(* and the moment list is unchanged after the failure.                     *)
(* Refuted: a Moment argument goes to list.insert before the index check.  *)

C1_InsertOutOfRangeFails ==
    (/\ pc = "done"
     /\ call.name = "insert"
     /\ (call.index < 0 \/ call.index > Len(call.before)))
    => (ret = Raise("IndexError") /\ moments = call.before)

----------------------------------------------------------------------------
(* C2: with strategy EARLIEST every operation is placed into a moment      *)
(* index >= 0 whose existing operations touch none of the operation's      *)
(* qubits: the placement never fails on an overlap, the operation is in    *)
(* moment p afterwards and every other operation there is on other qubits. *)

C2_EarliestNeverOverlaps ==
    (InsertStepped /\ step.strategy = "EARLIEST")
    => /\ ret.kind # "ValueError"
       /\ 0 <= step.p
       /\ step.p < Len(moments)
       /\ Where(moments, step.op.tag) = {step.p}
       /\ \A y \in 1..Len(moments[step.p + 1]) :
              moments[step.p + 1][y] # step.op
              => moments[step.p + 1][y].qubits \cap step.op.qubits = {}

\* An EARLIEST placement joined a non-empty moment before the insertion point.
C2_Witness ==
    /\ InsertStepped
    /\ step.strategy = "EARLIEST"
    /\ step.p + 1 < step.k
    /\ Len(moments[step.p + 1]) >= 2

----------------------------------------------------------------------------
(* C3: during one insert call the insertion point k never decreases, and   *)
(* for every strategy two input operations A before B that share a qubit   *)
(* end up with moment_index(A) < moment_index(B) when the call returns.    *)

C3_InsertionPointMonotoneOrderKept ==
    /\ (InsertStepped /\ ret.kind # "ValueError")
       => (k >= step.k /\ k > step.p)
    /\ (InsertStepped /\ Returned)
       => \A A, B \in 1..Len(ops) :
              (A < B /\ ops[A].qubits \cap ops[B].qubits # {})
              => /\ Where(moments, ops[A].tag) # {}
                 /\ Where(moments, ops[B].tag) # {}
                 /\ \A x \in Where(moments, ops[A].tag),
                       y \in Where(moments, ops[B].tag) : x < y

\* A returned EARLIEST call whose two different operations share a qubit.
C3_Witness ==
    /\ InsertStepped
    /\ Returned
    /\ step.strategy = "EARLIEST"
    /\ Len(ops) = 2
    /\ ops[1].qubits \cap ops[2].qubits # {}
    /\ ops[1].qubits # ops[2].qubits

----------------------------------------------------------------------------
(* C4: with strategy EARLIEST and insertion point k: if moment k does not  *)
(* touch the operation's qubits (or k = len), the operation goes to p + 1  *)
(* for p the largest moment index < k touching one of its qubits, or to 0  *)
(* if there is none, an empty moment being appended when that index is     *)
(* len; if moment k touches its qubits, it is placed as INLINE places it   *)
(* at k.                                                                   *)

InlinePlaced(ms, kk, op, p, after) ==
    IF kk >= 1 /\ ~Touches(ms, kk - 1, op.qubits)
    THEN p = kk - 1 /\ after = AddedAt(ms, kk - 1, op)
    ELSE p = kk /\ after = InsertedAt(ms, kk, <<op>>)

C4_EarliestRule ==
    (InsertStepped /\ step.strategy = "EARLIEST")
    => LET ms == step.before
           q == step.op.qubits
           earlier == {m \in 0..(step.k - 1) : Touches(ms, m, q)}
           target == IF earlier = {} THEN 0 ELSE Largest(earlier) + 1
       IN  IF step.k < Len(ms) /\ Touches(ms, step.k, q)
           THEN InlinePlaced(ms, step.k, step.op, step.p, moments)
           ELSE /\ step.p = target
                /\ moments = AddedAt(IF target = Len(ms) THEN Append(ms, <<>>) ELSE ms,
                                     target, step.op)

\* EARLIEST went back past a free moment to just after the latest moment
\* that touches the operation's qubits.
C4_Witness ==
    /\ InsertStepped
    /\ step.strategy = "EARLIEST"
    /\ step.p >= 1
    /\ step.p + 1 < step.k

----------------------------------------------------------------------------
(* C5: with strategy INLINE and insertion point k the operation is added   *)
(* to the existing moment k-1 iff k >= 1 and moment k-1 touches none of    *)
(* its qubits, and then the length is unchanged; otherwise a new moment    *)
(* holding only that operation is inserted at index k and the length       *)
(* grows by one.                                                           *)

C5_InlineRule ==
    (InsertStepped /\ step.strategy = "INLINE")
    => LET ms == step.before
           fits == step.k >= 1 /\ ~Touches(ms, step.k - 1, step.op.qubits)
       IN  /\ fits <=> (step.p = step.k - 1 /\ Len(moments) = Len(ms))
           /\ fits => moments = AddedAt(ms, step.k - 1, step.op)
           /\ ~fits => /\ step.p = step.k
                       /\ Len(moments) = Len(ms) + 1
                       /\ moments = InsertedAt(ms, step.k, <<step.op>>)

\* INLINE joined a non-empty moment k-1 that is not the last one.
C5_Witness ==
    /\ InsertStepped
    /\ step.strategy = "INLINE"
    /\ call.strategy = "INLINE"
    /\ step.p = step.k - 1
    /\ Len(moments[step.p + 1]) = 2
    /\ step.k < Len(moments)

----------------------------------------------------------------------------
(* C6: insert(index, ops, NEW) with n operations and 0 <= index <= len     *)
(* grows the circuit by exactly n, puts the i-th operation alone in        *)
(* moment index + i (i from 0), shifts every earlier moment at a position  *)
(* >= index right by n unchanged, and returns index + n.                   *)

C6_NewRule ==
    (/\ pc = "done"
     /\ call.name = "insert"
     /\ call.kind = "ops"
     /\ call.strategy = "NEW"
     /\ IndexOk(call.before, call.index))
    => LET n == Len(call.ops)
           old == call.before
       IN  /\ ret = Some(call.index + n)
           /\ Len(moments) = Len(old) + n
           /\ \A j \in 1..n : moments[call.index + j] = <<call.ops[j]>>
           /\ \A x \in 1..call.index : moments[x] = old[x]
           /\ \A x \in (call.index + 1)..Len(old) : moments[x + n] = old[x]

\* Two operations went in under NEW between two existing moments.
C6_Witness ==
    /\ pc = "done"
    /\ call.name = "insert"
    /\ call.kind = "ops"
    /\ call.strategy = "NEW"
    /\ Len(call.ops) = 2
    /\ call.index = 0
    /\ Len(call.before) = 1
    /\ ret = Some(2)

----------------------------------------------------------------------------
(* C7: with strategy NEW_THEN_INLINE the first operation of a call always  *)
(* lands in a brand-new moment inserted at index and every later operation *)
(* of the same call is placed by the INLINE rule; the switch is local to   *)
(* the call, so every call, whatever preceded it, starts with a new        *)
(* moment.                                                                 *)

\* Strategy and index the running insert was called with (insert_into_range
\* calls insert(end, remainder) with the default strategy).
InsertCallStrategy ==
    IF call.name = "insert_into_range" THEN "NEW_THEN_INLINE" ELSE call.strategy
InsertCallIndex ==
    IF call.name = "insert_into_range" THEN call.end ELSE call.index

----------------------------------------------------------------------------
(* C8: every insert call that returns, returns an index r just past the    *)
(* inserted region: index <= r <= len(circuit) after the call, and every   *)
(* operation (or the Moment) the call inserted sits at a moment index < r, *)
(* for operation trees under every strategy and for a Moment at any index. *)
(* Refuted for a Moment at an index outside [0, len]: see C1.              *)

C8_ReturnsJustPastInserted ==
    (pc = "done" /\ call.name = "insert" /\ ret.kind = "int")
    => /\ call.index <= ret.val
       /\ ret.val <= Len(moments)
       /\ IF call.kind = "ops"
          THEN \A t \in 1..Len(call.ops) :
                   /\ Where(moments, t) # {}
                   /\ \A x \in Where(moments, t) : x < ret.val
          ELSE \E j \in 0..Len(call.before) :
                   /\ j < ret.val
                   /\ moments = InsertedAt(call.before, j, call.moment)

----------------------------------------------------------------------------
(* C9: insert_into_range fills slots with a per-qubit forward-only cursor: *)
(* each operation is written into the first moment of [start, end), at or  *)
(* after the moment used by earlier operations of the call that share one  *)
(* of its qubits, that does not touch its qubits, and is not pushed later  *)
(* by earlier operations on disjoint qubits; operations that cannot be     *)
(* placed inside the range are inserted via insert at end.                 *)
(* Refuted: the cursor i is one variable shared by all operations.         *)

C9_PerQubitCursor ==
    RangeStepped
    => LET ms == step.before
           q == step.op.qubits
           sharers == {t \in 1..(step.op.tag - 1) : call.ops[t].qubits \cap q # {}}
           used == UNION {Where(ms, t) : t \in sharers}
           lo == IF used = {} THEN call.start ELSE Max(call.start, Largest(used))
           free == {j \in lo..(call.end - 1) : ~Touches(ms, j, q)}
       IN  IF free = {}
           THEN pc = "insert" /\ moments = ms
           ELSE step.p = Smallest(free) /\ moments = AddedAt(ms, step.p, step.op)

(* C9 as amended: insert_into_range fills slots with one forward-only      *)
(* cursor shared by all operations of the call: the cursor starts at       *)
(* start and stays at the moment the previous operation was written into,  *)
(* whatever its qubits; each operation is written into the first moment of *)
(* [cursor, end) that does not touch its qubits.  The first operation for  *)
(* which there is none, and every operation after it, is inserted via      *)
(* insert(end, ...) with the default strategy and ends up at an index      *)
(* >= end.                                                                 *)

C9_SharedCursor ==
    /\ RangeStepped
       => LET ms == step.before
              q == step.op.qubits
              t == step.op.tag
              cursor == IF t = 1 THEN call.start ELSE Largest(Where(ms, t - 1))
              free == {j \in cursor..(call.end - 1) : ~Touches(ms, j, q)}
          IN  /\ step.i = cursor
              /\ IF free = {}
                 THEN /\ pc = "insert"
                      /\ moments = ms
                      /\ k = call.end
                      /\ strategy = "NEW_THEN_INLINE"
                      /\ ops = SubSeq(call.ops, t, Len(call.ops))
                 ELSE /\ pc # "insert"
                      /\ step.p = Smallest(free)
                      /\ i = step.p
                      /\ moments = AddedAt(ms, step.p, step.op)
    /\ (Returned /\ call.name = "insert_into_range" /\ InsertStepped)
       => /\ ret.val >= call.end + 1
          /\ \A j \in 1..Len(ops) :
                 /\ Where(moments, ops[j].tag) # {}
                 /\ \A x \in Where(moments, ops[j].tag) : call.end <= x /\ x < ret.val

\* An operation was written one moment later than its own qubits required,
\* because the cursor had been advanced by an earlier operation on a
\* different qubit.
C9_Witness ==
    /\ RangeStepped
    /\ pc = "range"
    /\ step.op.tag = 2
    /\ call.ops[1].qubits \cap step.op.qubits = {}
    /\ step.i > call.start
    /\ step.p = step.i
    /\ ~Touches(step.before, call.start, step.op.qubits)

----------------------------------------------------------------------------
(* C10: insert_into_range raises IndexError, with the circuit unchanged,   *)
(* whenever not (0 <= start <= end <= len(circuit)); when the bounds are   *)
(* valid and every operation fits inside [start, end) it returns end,      *)
(* creates no new moment and leaves every moment outside [start, end)      *)
(* unchanged.                                                              *)

\* Every operation of the call is in a moment of [start, end).
AllInRange ==
    \A t \in 1..Len(call.ops) :
        /\ Where(moments, t) # {}
        /\ \A x \in Where(moments, t) : call.start <= x /\ x < call.end

C10_RangeBoundsAndFrame ==
    (pc = "done" /\ call.name = "insert_into_range")
    => IF ~(0 <= call.start /\ call.start <= call.end /\ call.end <= Len(call.before))
       THEN ret = Raise("IndexError") /\ moments = call.before
       ELSE /\ ret.kind = "int"
            /\ AllInRange
               => /\ ret = Some(call.end)
                  /\ Len(moments) = Len(call.before)
                  /\ \A x \in 0..(Len(moments) - 1) :
                         (x < call.start \/ x >= call.end)
                         => moments[x + 1] = call.before[x + 1]

\* Two operations were fitted into a range that ends before the circuit does.
C10_Witness ==
    /\ pc = "done"
    /\ call.name = "insert_into_range"
    /\ ret = Some(call.end)
    /\ Len(call.ops) = 2
    /\ AllInRange
    /\ call.end < Len(moments)

\* A call with inverted bounds failed.
C10_WitnessInverted ==
    /\ Failed("IndexError")
    /\ call.name = "insert_into_range"
    /\ 0 <= call.end
    /\ call.end < call.start
    /\ call.start <= Len(moments)
    /\ Len(call.ops) >= 1

----------------------------------------------------------------------------
(* The read-only queries next_moment_operating_on and                      *)
(* prev_moment_operating_on, called on any circuit a caller can build      *)

MaxQueryLen == 3

\* Circuit(moments) for every list of at most n moments, line 78-84
Circuits(n) == UNION {[1..m -> Moments] : m \in 0..n}

\* Faulty variant: max_distance is not clipped to the given value.
next_moment_operating_on_NoLimit(ms, qubits, start_moment_index, max_distance) ==
    LET max_circuit_distance == Len(ms) - start_moment_index
    IN  IF max_distance # None /\ max_distance.val < 0 THEN Raise("ValueError")
        ELSE first_moment_operating_on(
                 ms, qubits,
                 [j \in 1..max_circuit_distance |-> start_moment_index + (j - 1)])

\* lines 226-255; range(start, start + max_distance) is empty when
\* max_distance <= 0
next_moment_operating_on(ms, qubits, start_moment_index, max_distance) ==
    LET max_circuit_distance == Len(ms) - start_moment_index
        dist == IF max_distance = None THEN max_circuit_distance
                ELSE Min(max_distance.val, max_circuit_distance)
    IN  IF max_distance # None /\ max_distance.val < 0 THEN Raise("ValueError")
        ELSE first_moment_operating_on(
                 ms, qubits, [j \in 1..dist |-> start_moment_index + (j - 1)])

InitQuery ==
    /\ moments \in Circuits(MaxQueryLen)
    /\ pc = "idle"
    /\ ops = <<>>
    /\ op_index = 0
    /\ k = 0
    /\ strategy = "NEW_THEN_INLINE"
    /\ i = 0
    /\ ret = None
    /\ call = NoCall
    /\ step = NoStep
    /\ heap = NoHeap

NextMomentOperatingOn(qubits, start_moment_index, max_distance) ==
    /\ pc = "idle"
    /\ call' = [name |-> "next_moment_operating_on", qubits |-> qubits,
                start |-> start_moment_index, max_distance |-> max_distance,
                before |-> moments]
    /\ ret' = next_moment_operating_on(moments, qubits, start_moment_index,
                                       max_distance)
    /\ pc' = "done"
    /\ UNCHANGED <<moments, ops, op_index, k, strategy, i, step>>
    /\ UNCHANGED heap

PrevMomentOperatingOn(qubits, end_moment_index, max_distance) ==
    /\ pc = "idle"
    /\ call' = [name |-> "prev_moment_operating_on", qubits |-> qubits,
                end |-> end_moment_index, max_distance |-> max_distance,
                before |-> moments]
    /\ ret' = prev_moment_operating_on(moments, qubits, end_moment_index,
                                       max_distance)
    /\ pc' = "done"
    /\ UNCHANGED <<moments, ops, op_index, k, strategy, i, step>>
    /\ UNCHANGED heap

\* Arguments of the queries: indices from two below to two above the
\* circuit, distances from -1 to past the circuit, or the default.
QueryIndexes == -2..(Len(moments) + 2)
QueryDistances == {None} \cup {Some(d) : d \in -1..(Len(moments) + 2)}

NextQuery ==
    \/ /\ pc = "idle"
       /\ \E qubits \in SUBSET Qubits, start \in QueryIndexes,
             max_distance \in QueryDistances :
              NextMomentOperatingOn(qubits, start, max_distance)
    \/ /\ pc = "idle"
       /\ \E qubits \in SUBSET Qubits,
             end \in {None} \cup {Some(e) : e \in QueryIndexes},
             max_distance \in QueryDistances :
              PrevMomentOperatingOn(qubits, end, max_distance)

SpecQuery == InitQuery /\ [][NextQuery]_vars

NextQueried == pc = "done" /\ call.name = "next_moment_operating_on"
PrevQueried == pc = "done" /\ call.name = "prev_moment_operating_on"

----------------------------------------------------------------------------
(* C11: next_moment_operating_on(qubits, start_moment_index, max_distance) *)
(* returns the smallest index m of the circuit (0 <= m < len) with         *)
(* start_moment_index <= m < start_moment_index + max_distance whose       *)
(* moment touches one of the qubits, the window being unbounded above when *)
(* max_distance is omitted; it returns None when there is no such m,       *)
(* raises ValueError when max_distance is negative, and leaves the circuit *)
(* as it was.                                                              *)
C11_NextMomentRule ==
    NextQueried =>
        LET md == call.max_distance
            S == {m \in 0..(Len(call.before) - 1) :
                     /\ call.start <= m
                     /\ md # None => m < call.start + md.val
                     /\ Touches(call.before, m, call.qubits)}
        IN  /\ moments = call.before
            /\ IF md # None /\ md.val < 0 THEN ret = Raise("ValueError")
               ELSE IF S = {} THEN ret = None
               ELSE ret = Some(Smallest(S))

\* A search with an explicit limit finds a moment although an earlier
\* moment before the start and a later one past the window also touch the
\* qubits.
C11_Witness ==
    /\ NextQueried
    /\ call.max_distance # None
    /\ ret.kind = "int"
    /\ \E m \in 0..(Len(moments) - 1) :
           m < call.start /\ Touches(moments, m, call.qubits)
    /\ \E m \in 0..(Len(moments) - 1) :
           /\ m >= call.start + call.max_distance.val
           /\ Touches(moments, m, call.qubits)

----------------------------------------------------------------------------
(* C12: prev_moment_operating_on(qubits, end_moment_index, max_distance)   *)
(* returns the largest index m of the circuit (0 <= m < len) with          *)
(* end_moment_index - max_distance <= m < end_moment_index whose moment    *)
(* touches one of the qubits, or None; end_moment_index defaults to the    *)
(* length of the circuit, and with max_distance omitted there is no lower  *)
(* limit, for every end_moment_index, also one greater than the length;    *)
(* a negative max_distance raises ValueError.                              *)
C12_PrevMomentRule ==
    PrevQueried =>
        LET md == call.max_distance
            end == IF call.end = None THEN Len(call.before) ELSE call.end.val
            S == {m \in 0..(Len(call.before) - 1) :
                     /\ m < end
                     /\ md # None => end - md.val <= m
                     /\ Touches(call.before, m, call.qubits)}
        IN  /\ moments = call.before
            /\ IF md # None /\ md.val < 0 THEN ret = Raise("ValueError")
               ELSE IF S = {} THEN ret = None
               ELSE ret = Some(Largest(S))

----------------------------------------------------------------------------
(* Operations that carry their gate; are_all_measurements_terminal         *)

MaxTerminalLen == 2

GateOperation(tag, gate, qubits) == [tag |-> tag, qubits |-> qubits, gate |-> gate]

\* Moments of operations with gates of the given kinds on disjoint qubits.
MomentsOf(gates, qubit_sets) ==
    {m \in UNION {[1..n -> {GateOperation(0, g, q) : g \in gates, q \in qubit_sets}] :
                     n \in 0..Cardinality(Qubits)} :
        Disjoint(m)}

CircuitsOf(moment_set, n) == UNION {[1..m -> moment_set] : m \in 0..n}

is_measurement(op) == op.gate = "measure"

Bool(b) == [kind |-> "bool", val |-> b]

\* findall_operations(predicate) for the measurement predicate: the
\* (moment index, position in the moment) pairs, lines 321-339
findall_measurements(ms) ==
    {<<m, y>> \in (0..(Len(ms) - 1)) \X (1..Cardinality(Qubits)) :
        y <= Len(ms[m + 1]) /\ is_measurement(ms[m + 1][y])}

\* Faulty variant: the search for a later moment starts at the
\* measurement's own moment.
are_all_measurements_terminal_FromOwnMoment(ms) ==
    \A at \in findall_measurements(ms) :
        next_moment_operating_on(ms, ms[at[1] + 1][at[2]].qubits,
                                 at[1], None) = None

\* lines 365-368
are_all_measurements_terminal(ms) ==
    \A at \in findall_measurements(ms) :
        next_moment_operating_on(ms, ms[at[1] + 1][at[2]].qubits,
                                 at[1] + 1, None) = None

MeasuredMoments == MomentsOf({"X", "measure"}, QubitSets)

InitTerminal ==
    /\ moments \in CircuitsOf(MeasuredMoments, MaxTerminalLen)
    /\ pc = "idle"
    /\ ops = <<>>
    /\ op_index = 0
    /\ k = 0
    /\ strategy = "NEW_THEN_INLINE"
    /\ i = 0
    /\ ret = None
    /\ call = NoCall
    /\ step = NoStep
    /\ heap = NoHeap

AreAllMeasurementsTerminal ==
    /\ pc = "idle"
    /\ call' = [name |-> "are_all_measurements_terminal", before |-> moments]
    /\ ret' = Bool(are_all_measurements_terminal(moments))
    /\ pc' = "done"
    /\ UNCHANGED <<moments, ops, op_index, k, strategy, i, step>>
    /\ UNCHANGED heap

NextTerminal ==
    \/ AreAllMeasurementsTerminal
    \/ /\ pc = "idle"
       /\ \E g \in {"X", "measure"}, q \in QubitSets, strat \in Strategies :
              AppendBegin(<<GateOperation(1, g, q)>>, strat)
    \/ InsertStep
    \/ InsertReturn

SpecTerminal == InitTerminal /\ [][NextTerminal]_vars

\* Some moment after moment m touches one of the qubits.
TouchedLater(ms, m, qubits) ==
    \E later \in (m + 1)..(Len(ms) - 1) : Touches(ms, later, qubits)

\* The measurements of ms that are followed by a moment touching their qubits.
NonTerminal(ms) ==
    {at \in findall_measurements(ms) :
        TouchedLater(ms, at[1], ms[at[1] + 1][at[2]].qubits)}

\* The qubits measured somewhere in ms.
Measured(ms) ==
    UNION {ms[at[1] + 1][at[2]].qubits : at \in findall_measurements(ms)}

TerminalQueried == pc = "done" /\ call.name = "are_all_measurements_terminal"

----------------------------------------------------------------------------
(* C13: are_all_measurements_terminal() is true iff no measurement         *)
(* operation is followed by a later moment touching one of its qubits; a   *)
(* circuit without measurements yields true; and appending an operation    *)
(* on a measured qubit to a circuit for which it is true makes it false.   *)
C13_TerminalRule ==
    /\ TerminalQueried =>
           /\ ret = Bool(NonTerminal(moments) = {})
           /\ findall_measurements(moments) = {} => ret = Bool(TRUE)
           /\ moments = call.before
    /\ (/\ Returned
        /\ call.name = "append"
        /\ call.ops[1].qubits \cap Measured(call.before) # {}
        /\ are_all_measurements_terminal(call.before))
           => ~are_all_measurements_terminal(moments)

\* The query answers false on a circuit whose measurement of one qubit is
\* followed by an operation on it, while another measurement is terminal.
C13_Witness ==
    /\ TerminalQueried
    /\ ret = Bool(FALSE)
    /\ NonTerminal(moments) # findall_measurements(moments)

\* An append of an operation on a measured qubit to a circuit whose
\* measurements were all terminal has returned.
C13_WitnessAppend ==
    /\ Returned
    /\ call.name = "append"
    /\ call.ops[1].qubits \cap Measured(call.before) # {}
    /\ are_all_measurements_terminal(call.before)
    /\ Len(call.before) = MaxTerminalLen

----------------------------------------------------------------------------
(* to_unitary_matrix: which circuits convert, and which raise TypeError    *)

MaxUnitaryLen == 2

\* The kinds of operation the conversion tells apart: "X" casts to
\* KnownMatrix, "measure" is a measurement, "opaque" is none of these, and
\* the others cast to CompositeOperation.
UnitaryKinds ==
    {"X", "measure", "opaque", "composite", "nested_opaque", "hidden_measure"}

\* "X" stands for any gate with a matrix; "PauliX", "PauliZ", "CNOT" and
\* "I" (Z at exponent 0) are gates of common_gates.py with their own
\* matrices
has_known_matrix(op) == op.gate \in {"X", "PauliX", "PauliZ", "CNOT", "I"}

is_composite(op) ==
    op.gate \in {"composite", "nested_opaque", "hidden_measure", "ladder"}

Reversed(s) == [j \in 1..Len(s) |-> s[Len(s) + 1 - j]]

\* composite_op.default_decompose(), flattened: operations on the qubits
\* of the composite operation
default_decompose(op) ==
    LET sub(g) == GateOperation(op.tag, g, op.qubits)
    IN  CASE op.gate = "composite" -> <<sub("X"), sub("X")>>
          [] op.gate = "nested_opaque" -> <<sub("composite"), sub("opaque")>>
          [] op.gate = "hidden_measure" -> <<sub("X"), sub("measure")>>
          [] op.gate = "ladder" ->
                 <<sub("CNOT"),
                   GateOperation(op.tag, "CNOT", Reversed(op.qubits))>>

\* all_operations(), lines 527-534
RECURSIVE all_operations(_)
all_operations(ms) ==
    IF ms = <<>> THEN <<>> ELSE Head(ms) \o all_operations(Tail(ms))

TypeError == [raise |-> "TypeError"]

Raises(items) == \E j \in 1..Len(items) : items[j] = TypeError

\* _flatten_to_known_matrix_ops, lines 764-792: the operations the
\* generator yields, ending with TypeError if it raises
RECURSIVE flatten_to_known_matrix_ops(_)
flatten_to_known_matrix_ops(iter_ops) ==
    IF iter_ops = <<>> THEN <<>>
    ELSE LET op == Head(iter_ops)
             first == IF has_known_matrix(op) THEN <<op>>
                      ELSE IF is_composite(op)
                           THEN flatten_to_known_matrix_ops(default_decompose(op))
                      ELSE IF is_measurement(op) THEN <<op>>
                      ELSE <<TypeError>>
         IN  IF Raises(first) THEN first
             ELSE first \o flatten_to_known_matrix_ops(Tail(iter_ops))

Matrix(factors) == [kind |-> "matrix", factors |-> factors]

\* _operations_to_unitary_matrix, lines 795-810.  The product is kept as
\* the sequence of its factors, the operation applied first coming first.
RECURSIVE operations_to_unitary_matrix(_, _, _)
operations_to_unitary_matrix(iter_ops, ignore_terminal_measurements, total) ==
    IF iter_ops = <<>> THEN Matrix(total)
    ELSE LET op == Head(iter_ops)
         IN  IF op = TypeError THEN Raise("TypeError")
             ELSE IF is_measurement(op)
                  THEN IF ~ignore_terminal_measurements THEN Raise("TypeError")
                       ELSE operations_to_unitary_matrix(
                                Tail(iter_ops), ignore_terminal_measurements, total)
             ELSE operations_to_unitary_matrix(
                      Tail(iter_ops), ignore_terminal_measurements,
                      Append(total, op))

\* lines 536-578
to_unitary_matrix(ms, ignore_terminal_measurements) ==
    LET matrix_ops == flatten_to_known_matrix_ops(all_operations(ms))
    IN  IF ~are_all_measurements_terminal(ms) THEN Raise("TypeError")
        ELSE operations_to_unitary_matrix(matrix_ops,
                                          ignore_terminal_measurements, <<>>)

UnitaryMoments == MomentsOf(UnitaryKinds, {{q} : q \in Qubits})

InitUnitary ==
    /\ moments \in CircuitsOf(UnitaryMoments, MaxUnitaryLen)
    /\ pc = "idle"
    /\ ops = <<>>
    /\ op_index = 0
    /\ k = 0
    /\ strategy = "NEW_THEN_INLINE"
    /\ i = 0
    /\ ret = None
    /\ call = NoCall
    /\ step = NoStep
    /\ heap = NoHeap

ToUnitaryMatrix(ignore_terminal_measurements) ==
    /\ pc = "idle"
    /\ call' = [name |-> "to_unitary_matrix",
                ignore_terminal_measurements |-> ignore_terminal_measurements,
                before |-> moments]
    /\ ret' = to_unitary_matrix(moments, ignore_terminal_measurements)
    /\ pc' = "done"
    /\ UNCHANGED <<moments, ops, op_index, k, strategy, i, step>>
    /\ UNCHANGED heap

NextUnitary ==
    \E ignore_terminal_measurements \in BOOLEAN :
        ToUnitaryMatrix(ignore_terminal_measurements)

SpecUnitary == InitUnitary /\ [][NextUnitary]_vars

\* The operation has a known matrix or a decomposition that recursively
\* reduces to operations with a known matrix.
RECURSIVE ReducesToKnownMatrix(_)
ReducesToKnownMatrix(op) ==
    \/ has_known_matrix(op)
    \/ /\ is_composite(op)
       /\ \A j \in 1..Len(default_decompose(op)) :
              ReducesToKnownMatrix(default_decompose(op)[j])

OperationsOf(ms) == {all_operations(ms)[j] : j \in 1..Len(all_operations(ms))}

UnitaryQueried == pc = "done" /\ call.name = "to_unitary_matrix"

----------------------------------------------------------------------------
(* C14: to_unitary_matrix raises TypeError exactly when some measurement   *)
(* is not terminal, or some non-measurement operation has neither a known  *)
(* matrix nor a decomposition that recursively reduces to known-matrix     *)
(* operations, or ignore_terminal_measurements is false and the circuit    *)
(* contains a measurement; otherwise it returns a matrix in which the      *)
(* terminal measurements are skipped.                                      *)
C14_TypeErrorExactly ==
    UnitaryQueried =>
        LET must_fail ==
                \/ NonTerminal(moments) # {}
                \/ \E op \in OperationsOf(moments) :
                       ~is_measurement(op) /\ ~ReducesToKnownMatrix(op)
                \/ /\ ~call.ignore_terminal_measurements
                   /\ findall_measurements(moments) # {}
        IN  IF must_fail THEN ret = Raise("TypeError")
            ELSE /\ ret.kind = "matrix"
                 /\ \A j \in 1..Len(ret.factors) : has_known_matrix(ret.factors[j])

----------------------------------------------------------------------------
(* _operation_to_unitary_matrix: the matrix of an operation embedded into  *)
(* the space of all the qubits of the circuit                              *)

MaxQubitCount == 3

QubitNames == <<"a", "b", "c", "d", "e">>

Pow2(n) == 2 ^ n

\* (val >> at) & 1
Bit(val, at) == (val \div Pow2(at)) % 2

\* lines 838-839
moved_bit(val, at, to) == Bit(val, at) * Pow2(to)

RECURSIVE Sum(_)
Sum(s) == IF s = <<>> THEN 0 ELSE Head(s) + Sum(Tail(s))

\* x & ~mask and x | y on the width bits of a matrix index
AndNot(x, mask, width) ==
    Sum([b \in 1..width |-> Bit(x, b - 1) * (1 - Bit(mask, b - 1)) * Pow2(b - 1)])
Or(x, y, width) ==
    Sum([b \in 1..width |->
            (IF Bit(x, b - 1) + Bit(y, b - 1) > 0 THEN 1 ELSE 0) * Pow2(b - 1)])

\* CNotGate.matrix(), common_gates.py lines 210-215
CNotMatrix ==
    [r \in 0..3 |-> [c \in 0..3 |->
        IF <<r, c>> \in {<<0, 0>>, <<1, 1>>, <<2, 3>>, <<3, 2>>} THEN 1 ELSE 0]]

\* The matrix of any other gate on n qubits: every entry its own nonzero
\* value, so that entries cannot be confused.
GenericMatrix(n) ==
    [r \in 0..(Pow2(n) - 1) |-> [c \in 0..(Pow2(n) - 1) |-> 1 + r * Pow2(n) + c]]

\* XGate at exponent 1, common_gates.py
PauliXMatrix == [r \in 0..1 |-> [c \in 0..1 |-> IF r # c THEN 1 ELSE 0]]

\* RotZGate at exponent 1, common_gates.py
PauliZMatrix ==
    [r \in 0..1 |-> [c \in 0..1 |-> IF r # c THEN 0 ELSE IF r = 0 THEN 1 ELSE -1]]

\* RotZGate at exponent 0
IdentityMatrix == [r \in 0..1 |-> [c \in 0..1 |-> IF r = c THEN 1 ELSE 0]]

matrix(op) ==
    CASE op.gate = "CNOT" -> CNotMatrix
      [] op.gate = "PauliX" -> PauliXMatrix
      [] op.gate = "PauliZ" -> PauliZMatrix
      [] op.gate = "I" -> IdentityMatrix
      [] OTHER -> GenericMatrix(Len(op.qubits))

NdArray(rows) == [kind |-> "ndarray", val |-> rows]

\* Faulty variant: bit_locs is not reversed.
operation_to_unitary_matrix_NotReversed(op, qubit_map) ==
    LET sub_mat == matrix(op)
        qubit_count == Cardinality(DOMAIN qubit_map)
        n == Len(op.qubits)
        bit_locs == [t \in 1..n |-> qubit_count - qubit_map[op.qubits[t]] - 1]
        over_mask == Sum([t \in 1..n |-> Pow2(bit_locs[t])])
        sub(x) == Sum([t \in 1..n |-> moved_bit(x, bit_locs[t], t - 1)])
        spread(sub_j) == Sum([t \in 1..n |-> moved_bit(sub_j, t - 1, bit_locs[t])])
        column(x, sub_j) == Or(AndNot(x, over_mask, qubit_count), spread(sub_j),
                               qubit_count)
    IN  NdArray([x \in 0..(Pow2(qubit_count) - 1) |->
                    LET columns == {<<column(x, sub_j), sub_j>> :
                                       sub_j \in 0..(Pow2(n) - 1)}
                    IN  [c \in 0..(Pow2(qubit_count) - 1) |->
                            LET written == {p[2] : p \in {w \in columns : w[1] = c}}
                            IN  IF written = {} THEN 0
                                ELSE sub_mat[sub(x)][Largest(written)]]])

\* lines 813-835; over_mask is kept as the mask it complements, and
\* result[i, c] is the value most recently assigned to it, or the initial 0
operation_to_unitary_matrix(op, qubit_map) ==
    LET sub_mat == matrix(op)
        qubit_count == Cardinality(DOMAIN qubit_map)
        n == Len(op.qubits)
        bit_locs == Reversed([t \in 1..n |->
                                 qubit_count - qubit_map[op.qubits[t]] - 1])
        over_mask == Sum([t \in 1..n |-> Pow2(bit_locs[t])])
        sub(x) == Sum([t \in 1..n |-> moved_bit(x, bit_locs[t], t - 1)])
        spread(sub_j) == Sum([t \in 1..n |-> moved_bit(sub_j, t - 1, bit_locs[t])])
        column(x, sub_j) == Or(AndNot(x, over_mask, qubit_count), spread(sub_j),
                               qubit_count)
    IN  NdArray([x \in 0..(Pow2(qubit_count) - 1) |->
                    LET columns == {<<column(x, sub_j), sub_j>> :
                                       sub_j \in 0..(Pow2(n) - 1)}
                    IN  [c \in 0..(Pow2(qubit_count) - 1) |->
                            LET written == {p[2] : p \in {w \in columns : w[1] = c}}
                            IN  IF written = {} THEN 0
                                ELSE sub_mat[sub(x)][Largest(written)]]])

\* Sequences without repetition of between lo and hi of the given qubits.
Tuples(qubits, lo, hi) ==
    {s \in UNION {[1..n -> qubits] : n \in lo..hi} :
        \A x, y \in 1..Len(s) : x # y => s[x] # s[y]}

\* qubit_map for a qubit order: qubit -> position, lines 569-571
QubitMap(order) ==
    [q \in {order[j] : j \in 1..Len(order)} |->
        (CHOOSE j \in 1..Len(order) : order[j] = q) - 1]

OperationToUnitaryMatrix(gate, qubits, order) ==
    /\ pc = "idle"
    /\ call' = [name |-> "_operation_to_unitary_matrix", gate |-> gate,
                qubits |-> qubits, order |-> order]
    /\ ret' = operation_to_unitary_matrix(GateOperation(0, gate, qubits),
                                          QubitMap(order))
    /\ pc' = "done"
    /\ UNCHANGED <<moments, ops, op_index, k, strategy, i, step>>
    /\ UNCHANGED heap

NextEmbed ==
    /\ pc = "idle"
    /\ \E n \in 1..MaxQubitCount :
         LET present == {QubitNames[j] : j \in 1..n}
         IN  \E order \in Tuples(present, n, n), qubits \in Tuples(present, 1, n),
                gate \in {"X", "CNOT"} :
                 /\ gate = "CNOT" => Len(qubits) = 2
                 /\ OperationToUnitaryMatrix(gate, qubits, order)

SpecEmbed == Init /\ [][NextEmbed]_vars

Embedded == pc = "done" /\ call.name = "_operation_to_unitary_matrix"

\* The value in matrix index x of the bit that belongs to qubit q: the
\* first qubit of the order is the most significant bit.
QubitBit(x, q, order) ==
    Bit(x, Len(order) - (CHOOSE j \in 1..Len(order) : order[j] = q))

\* The index into the operation's own matrix read off index x: the
\* operation's first qubit is the most significant bit.
SubIndex(x, qubits, order) ==
    Sum([t \in 1..Len(qubits) |->
            QubitBit(x, qubits[t], order) * Pow2(Len(qubits) - t)])

AgreeElsewhere(x, y, qubits, order) ==
    \A j \in 1..Len(order) :
        (\A t \in 1..Len(qubits) : qubits[t] # order[j])
            => QubitBit(x, order[j], order) = QubitBit(y, order[j], order)

----------------------------------------------------------------------------
(* C15: the matrix _operation_to_unitary_matrix builds has                 *)
(* result[i, j] = sub_mat[sub(i), sub(j)] when i and j agree on every bit  *)
(* of a qubit the operation does not touch, and 0 otherwise, where the     *)
(* first qubit of the order is the most significant bit of a matrix index  *)
(* and the operation's first qubit the most significant bit of sub; for    *)
(* CNOT(c, t) under the order [c, t] it is the canonical CNOT matrix.      *)
C15_EmbeddingRule ==
    Embedded =>
        LET order == call.order
            qubits == call.qubits
            sub_mat == matrix(GateOperation(0, call.gate, qubits))
            size == Pow2(Len(order))
        IN  /\ ret.kind = "ndarray"
            /\ DOMAIN ret.val = 0..(size - 1)
            /\ \A x, y \in 0..(size - 1) :
                   ret.val[x][y] =
                       IF AgreeElsewhere(x, y, qubits, order)
                       THEN sub_mat[SubIndex(x, qubits, order)]
                                   [SubIndex(y, qubits, order)]
                       ELSE 0
            /\ (call.gate = "CNOT" /\ order = qubits) =>
                   \A x, y \in 0..3 :
                       ret.val[x][y] =
                           IF y = (IF x >= 2 THEN 5 - x ELSE x) THEN 1 ELSE 0

\* A CNOT among three qubits whose target precedes its control in the
\* qubit order, with the untouched qubit between them.
C15_Witness ==
    /\ Embedded
    /\ call.gate = "CNOT"
    /\ Len(call.order) = 3
    /\ call.order[1] = call.qubits[2]
    /\ call.order[3] = call.qubits[1]
    /\ ret.val[1][5] = 1

----------------------------------------------------------------------------
(* Slicing, copy(), + and * and their in-place forms: several Circuit      *)
(* objects, each holding a Python list object.  heap.contents[id] is the   *)
(* list object id, heap.list_of[c] the list object circuit c holds         *)
(* (0: there is no such circuit yet).                                      *)

MaxAlgebraLen == 2

Contents(h, c) == h.contents[h.list_of[c]]

\* Circuit(moments): self._moments = list(moments), a new list object
NewCircuit(h, c, ms) ==
    [list_of |-> [h.list_of EXCEPT ![c] = Len(h.contents) + 1],
     contents |-> Append(h.contents, ms)]

\* an in-place change of the list object circuit c holds
Store(h, c, ms) == [h EXCEPT !.contents[h.list_of[c]] = ms]

\* lst[a:b]: a negative bound counts from the end, and a bound outside the
\* list is moved to its end
PySlice(s, a, b) ==
    LET n == Len(s)
        lo == IF a < 0 THEN Max(a + n, 0) ELSE Min(a, n)
        hi == IF b < 0 THEN Max(b + n, 0) ELSE Min(b, n)
    IN  SubSeq(s, lo + 1, hi)

\* lst * repetitions
RECURSIVE PyRepeat(_, _)
PyRepeat(s, repetitions) ==
    IF repetitions <= 0 THEN <<>> ELSE s \o PyRepeat(s, repetitions - 1)

\* the position lst[key] names, or the IndexError
PyIndex(s, key) ==
    LET j == IF key < 0 THEN key + Len(s) ELSE key
    IN  IF 0 <= j /\ j < Len(s) THEN Some(j) ELSE Raise("IndexError")

\* line 138
getitem_slice(h, a, b) == NewCircuit(h, "result", PySlice(Contents(h, "circuit"), a, b))

\* Faulty variant: the copy holds the list object of the original.
copy_SharedList(h) == [h EXCEPT !.list_of["result"] = h.list_of["circuit"]]

\* lines 109-110
copy(h) == NewCircuit(h, "result", Contents(h, "circuit"))

\* Faulty variant: + extends the left operand and returns it.
add_InPlace(h) ==
    [Store(h, "circuit", Contents(h, "circuit") \o Contents(h, "other"))
        EXCEPT !.list_of["result"] = h.list_of["circuit"]]

\* lines 174-177
add(h) == NewCircuit(h, "result", Contents(h, "circuit") \o Contents(h, "other"))

\* lines 185-188
mul(h, repetitions) ==
    NewCircuit(h, "result", PyRepeat(Contents(h, "circuit"), repetitions))

\* lines 190-193
rmul(h, repetitions) == mul(h, repetitions)

\* lines 168-172: returns self
iadd(h) ==
    [Store(h, "circuit", Contents(h, "circuit") \o Contents(h, "other"))
        EXCEPT !.list_of["result"] = h.list_of["circuit"]]

\* lines 179-183: returns self
imul(h, repetitions) ==
    [Store(h, "circuit", PyRepeat(Contents(h, "circuit"), repetitions))
        EXCEPT !.list_of["result"] = h.list_of["circuit"]]

AlgebraMoments == {<<>>, <<Operation(0, {"a"})>>}

AlgebraCircuits == CircuitsOf(AlgebraMoments, MaxAlgebraLen)

\* Two circuits, or one circuit used as both operands.
InitAlgebra ==
    /\ \E c1, c2 \in AlgebraCircuits :
           \/ heap = [list_of |-> [circuit |-> 1, other |-> 2, result |-> 0],
                      contents |-> <<c1, c2>>]
           \/ heap = [list_of |-> [circuit |-> 1, other |-> 1, result |-> 0],
                      contents |-> <<c1>>]
    /\ moments = <<>>
    /\ pc = "idle"
    /\ ops = <<>>
    /\ op_index = 0
    /\ k = 0
    /\ strategy = "NEW_THEN_INLINE"
    /\ i = 0
    /\ ret = None
    /\ call = NoCall
    /\ step = NoStep

CircuitRef(h) == [kind |-> "circuit", list |-> h.list_of["result"]]

\* An operator has produced its circuit: heap is h from now on.
Made(name, args, h) ==
    /\ pc = "idle"
    /\ call' = [name |-> name, args |-> args, before |-> heap]
    /\ heap' = h
    /\ ret' = CircuitRef(h)
    /\ pc' = "made"
    /\ UNCHANGED <<moments, ops, op_index, k, strategy, i, step>>

GetItemSlice(a, b) == Made("__getitem__", <<a, b>>, getitem_slice(heap, a, b))
Copy == Made("copy", <<>>, copy(heap))
Add == Made("__add__", <<>>, add(heap))
Mul(repetitions) == Made("__mul__", <<repetitions>>, mul(heap, repetitions))
RMul(repetitions) == Made("__rmul__", <<repetitions>>, rmul(heap, repetitions))
IAdd == Made("__iadd__", <<>>, iadd(heap))
IMul(repetitions) == Made("__imul__", <<repetitions>>, imul(heap, repetitions))

\* A later mutation of circuit c through one of the mutating methods.
Mutated(name, c, h, outcome) ==
    /\ pc = "made"
    /\ step' = [n |-> 1, loop |-> name, target |-> c, made |-> heap]
    /\ heap' = h
    /\ ret' = outcome
    /\ pc' = "done"
    /\ UNCHANGED <<moments, ops, op_index, k, strategy, i, call>>

\* c.insert(index, moment), lines 435-437
InsertMomentInto(c, index, m) ==
    Mutated("insert", c, Store(heap, c, ListInsert(Contents(heap, c), index, m)),
            Some(index + 1))

\* c.append(moment), lines 495-505
AppendMomentTo(c, m) ==
    Mutated("append", c,
            Store(heap, c, ListInsert(Contents(heap, c), Len(Contents(heap, c)), m)),
            None)

\* c[key] = moment, lines 152-162
SetItem(c, key, m) ==
    LET at == PyIndex(Contents(heap, c), key)
    IN  IF at.kind = "IndexError" THEN Mutated("__setitem__", c, heap, at)
        ELSE Mutated("__setitem__", c,
                     Store(heap, c, [Contents(heap, c) EXCEPT ![at.val + 1] = m]),
                     None)

\* del c[key], lines 165-166
DelItem(c, key) ==
    LET s == Contents(heap, c)
        at == PyIndex(s, key)
    IN  IF at.kind = "IndexError" THEN Mutated("__delitem__", c, heap, at)
        ELSE Mutated("__delitem__", c,
                     Store(heap, c, SubSeq(s, 1, at.val) \o SubSeq(s, at.val + 2, Len(s))),
                     None)

SliceBounds == -(MaxAlgebraLen + 1)..(MaxAlgebraLen + 1)
Repetitions == -1..2
Holders == {"circuit", "result"}
Keys(c) == -1..Len(Contents(heap, c))

NextAlgebra ==
    \/ /\ pc = "idle"
       /\ \E a \in SliceBounds, b \in SliceBounds : GetItemSlice(a, b)
    \/ Copy
    \/ Add
    \/ /\ pc = "idle"
       /\ \E repetitions \in Repetitions : Mul(repetitions)
    \/ /\ pc = "idle"
       /\ \E repetitions \in Repetitions : RMul(repetitions)
    \/ IAdd
    \/ /\ pc = "idle"
       /\ \E repetitions \in Repetitions : IMul(repetitions)
    \/ /\ pc = "made"
       /\ \E c \in Holders : \E index \in Keys(c), m \in AlgebraMoments :
              InsertMomentInto(c, index, m)
    \/ /\ pc = "made"
       /\ \E c \in Holders, m \in AlgebraMoments : AppendMomentTo(c, m)
    \/ /\ pc = "made"
       /\ \E c \in Holders : \E key \in Keys(c), m \in AlgebraMoments :
              SetItem(c, key, m)
    \/ /\ pc = "made"
       /\ \E c \in Holders : \E key \in Keys(c) : DelItem(c, key)

SpecAlgebra == InitAlgebra /\ [][NextAlgebra]_vars

\* The heap as the operator left it.
AsMade == IF pc = "done" THEN step.made ELSE heap

Produced(names) == pc \in {"made", "done"} /\ call.name \in names

\* The elements of s at the 0-based positions lo..hi-1 that exist, in order.
Between(s, lo, hi) ==
    LET P == {j \in 0..(Len(s) - 1) : lo <= j /\ j < hi}
    IN  [x \in 1..Cardinality(P) |-> s[Smallest(P) + x]]

\* A later mutation of one of the two circuits left the other as it was.
Independent ==
    pc = "done" =>
        /\ step.target = "result" =>
               Contents(heap, "circuit") = Contents(step.made, "circuit")
        /\ step.target = "circuit" =>
               Contents(heap, "result") = Contents(step.made, "result")

\* The later mutation changed the circuit it was applied to.
MutationTookEffect ==
    /\ pc = "done"
    /\ Contents(heap, step.target) # Contents(step.made, step.target)

----------------------------------------------------------------------------
(* C16 as stated: circuit[a:b] has length max(0, clamp(b) - clamp(a)) and  *)
(* holds the moments clamp(a)..clamp(b)-1, clamp moving a bound into       *)
(* 0..len(circuit), for all bounds a and b.                                *)
C16_SliceClamped ==
    Produced({"__getitem__"}) =>
        LET original == Contents(call.before, "circuit")
            clamp(x) == Max(0, Min(x, Len(original)))
            a == call.args[1]
            b == call.args[2]
            slice == Contents(AsMade, "result")
        IN  /\ Len(slice) = Max(0, clamp(b) - clamp(a))
            /\ slice = SubSeq(original, clamp(a) + 1, clamp(b))

(* C16 amended: circuit[a:b] is a new Circuit holding, in order, the       *)
(* moments at the indices from a up to but not including b, a negative     *)
(* bound counting from the end of the circuit (a + len, b + len) and       *)
(* indices outside the circuit being left out, so its length is            *)
(* max(0, clamp(b') - clamp(a')) for the bounds a', b' so resolved;        *)
(* taking the slice does not change the original, a later mutation of the  *)
(* slice (insert, append, item assignment, deletion) does not change the   *)
(* original, nor one of the original the slice; the same holds for copy(), *)
(* which holds all the moments.                                            *)
C16_SliceFromEndIndependent ==
    Produced({"__getitem__", "copy"}) =>
        LET original == Contents(call.before, "circuit")
            n == Len(original)
            resolved(x) == IF x < 0 THEN x + n ELSE x
            clamp(x) == Max(0, Min(x, n))
            made == Contents(AsMade, "result")
        IN  /\ call.name = "__getitem__" =>
                   /\ made = Between(original, resolved(call.args[1]),
                                     resolved(call.args[2]))
                   /\ Len(made) = Max(0, clamp(resolved(call.args[2]))
                                         - clamp(resolved(call.args[1])))
            /\ call.name = "copy" => made = original
            /\ Contents(AsMade, "circuit") = original
            /\ Independent

\* A slice taken with a bound counted from the end is not empty, and an
\* item assignment to it has changed it.
C16_Witness ==
    /\ Produced({"__getitem__"})
    /\ call.args[1] < 0
    /\ Contents(AsMade, "result") # <<>>
    /\ MutationTookEffect
    /\ step.target = "result"
    /\ step.loop = "__setitem__"

----------------------------------------------------------------------------
(* C17: circuit1 + circuit2 is a new circuit holding circuit1's moments    *)
(* followed by circuit2's; circuit * k and k * circuit are new circuits    *)
(* repeating the moment sequence k times (empty for k <= 0); none of them  *)
(* changes an operand, and a later mutation of the result changes no       *)
(* operand; += and *= put the same moments into the left operand itself.   *)
C17_ConcatenationRepetition ==
    Produced({"__add__", "__mul__", "__rmul__", "__iadd__", "__imul__"}) =>
        LET left == Contents(call.before, "circuit")
            right == Contents(call.before, "other")
            result == Contents(AsMade, "result")
            repeated(reps) ==
                /\ Len(result) = Max(reps, 0) * Len(left)
                /\ \A x \in 1..Len(result) :
                       result[x] = left[((x - 1) % Len(left)) + 1]
            expected ==
                IF call.name \in {"__add__", "__iadd__"}
                THEN result = left \o right
                ELSE repeated(call.args[1])
        IN  /\ expected
            /\ IF call.name \in {"__iadd__", "__imul__"}
               THEN Contents(AsMade, "circuit") = result
               ELSE /\ Contents(AsMade, "circuit") = left
                    /\ Contents(AsMade, "other") = right
                    /\ (pc = "done" /\ step.target = "result") =>
                           /\ Contents(heap, "circuit") = left
                           /\ Contents(heap, "other") = right

\* The sum of two non-empty circuits was changed by a later deletion.
C17_Witness ==
    /\ Produced({"__add__"})
    /\ Contents(call.before, "circuit") # <<>>
    /\ Contents(call.before, "other") # <<>>
    /\ MutationTookEffect
    /\ step.target = "result"
    /\ step.loop = "__delitem__"

----------------------------------------------------------------------------
(* insert and append called with a strategy that is none of the four       *)

MaxStrategyLen == 2

\* What a caller can pass as strategy: the four members of InsertStrategy
\* and something else.
StrategyArguments == Strategies \cup {"UNRECOGNIZED"}

InitStrategy ==
    /\ moments \in Circuits(MaxStrategyLen)
    /\ pc = "idle"
    /\ ops = <<>>
    /\ op_index = 0
    /\ k = 0
    /\ strategy = "NEW_THEN_INLINE"
    /\ i = 0
    /\ ret = None
    /\ call = NoCall
    /\ step = NoStep
    /\ heap = NoHeap

NextStrategy ==
    \/ /\ pc = "idle"
       /\ \E index \in Indexes, m \in Moments, strat \in StrategyArguments :
              InsertMoment(index, m, strat)
    \/ /\ pc = "idle"
       /\ \E index \in Indexes, operations \in OpLists(MaxOps),
             strat \in StrategyArguments :
              InsertBegin(index, operations, strat)
    \/ InsertStep
    \/ InsertReturn
    \/ /\ pc = "idle"
       /\ \E m \in Moments, strat \in StrategyArguments : AppendMoment(m, strat)
    \/ /\ pc = "idle"
       /\ \E operations \in OpLists(MaxOps), strat \in StrategyArguments :
              AppendBegin(operations, strat)

SpecStrategy == InitStrategy /\ [][NextStrategy]_vars

----------------------------------------------------------------------------
(* C18: every call of insert or append with a strategy that is not one of  *)
(* NEW, NEW_THEN_INLINE, INLINE, EARLIEST ends in ValueError and leaves    *)
(* the circuit unchanged, whether a non-empty operation tree, an empty     *)
(* operation tree or a Moment is inserted.                                 *)
C18_UnrecognizedStrategyFails ==
    (/\ pc = "done"
     /\ call.name \in {"insert", "append"}
     /\ call.strategy \notin Strategies)
        => /\ ret = Raise("ValueError")
           /\ moments = call.before

----------------------------------------------------------------------------
(* Numbers of the EigenGate model (cirq/ops/eigen_gate.py).  A Python      *)
(* float is m * 2^x with an odd significand m of at most Precision bits    *)
(* (doubles have 53); every float operation returns the exact result       *)
(* rounded to the nearest float, ties to the even significand.  Fractions  *)
(* (fractions.Fraction) are exact.                                         *)

Precision == 4

Abs(n) == IF n < 0 THEN -n ELSE n
Sign(n) == IF n < 0 THEN -1 ELSE 1

RECURSIVE BitLen(_)
BitLen(n) == IF n = 0 THEN 0 ELSE 1 + BitLen(n \div 2)

\* the float n * 2^x for an n that needs no rounding
RECURSIVE Float(_, _)
Float(n, x) ==
    IF n = 0 THEN [kind |-> "float", m |-> 0, x |-> 0]
    ELSE IF n % 2 = 0 THEN Float(n \div 2, x + 1)
    ELSE [kind |-> "float", m |-> n, x |-> x]

\* n * 2^x rounded to a float
Round(n, x) ==
    LET a == Abs(n)
        s == BitLen(a) - Precision
    IN  IF s <= 0 THEN Float(n, x)
        ELSE LET q == a \div Pow2(s)
                 r == a % Pow2(s)
                 half == Pow2(s - 1)
                 up == r > half \/ (r = half /\ q % 2 = 1)
             IN  Float(Sign(n) * (IF up THEN q + 1 ELSE q), x + s)

\* the integer f / 2^x0, for x0 at most the exponent of f
Scaled(f, x0) == f.m * Pow2(f.x - x0)

FloatMul(f, g) == Round(f.m * g.m, f.x + g.x)

FloatAdd(f, g) ==
    LET x0 == Min(f.x, g.x)
    IN  Round(Scaled(f, x0) + Scaled(g, x0), x0)

\* Python's f % p for p > 0: fmod (exact, with the sign of f), then p is
\* added to a negative remainder
FloatMod(f, p) ==
    LET x0 == Min(f.x, p.x)
        n == Scaled(f, x0)
        fmod == Sign(n) * (Abs(n) % Scaled(p, x0))
    IN  IF fmod < 0 THEN FloatAdd(Float(fmod, x0), p) ELSE Float(fmod, x0)

RECURSIVE Gcd(_, _)
Gcd(a, b) == IF b = 0 THEN Abs(a) ELSE Gcd(b, a % b)

\* fractions.Fraction(n, d), d # 0
Fraction(n, d) ==
    LET g == Gcd(Abs(n), Abs(d))
    IN  [n |-> Sign(d) * (n \div g), d |-> Abs(d) \div g]

FracAdd(p, q) == Fraction(p.n * q.d + q.n * p.d, p.d * q.d)
FracMul(p, q) == Fraction(p.n * q.n, p.d * q.d)
FracDiv(p, q) == Fraction(p.n * q.d, p.d * q.n)
FracAbs(p) == Fraction(Abs(p.n), p.d)
\* p < q, that is p.n * q.d / p.d < q.n, without the product q.n * p.d
FracLess(p, q) == (p.n * q.d) \div p.d < q.n

\* np.round: the nearest integer, ties to the even one
NpRound(p) ==
    LET q == p.n \div p.d
        twice == 2 * (p.n % p.d)
    IN  IF twice > p.d \/ (twice = p.d /\ q % 2 = 1) THEN q + 1 ELSE q

\* float(fraction)
ToFloat(p) ==
    LET s == Precision + 2 + BitLen(p.d)
        scaled == Abs(p.n) * Pow2(s)
        q == scaled \div p.d
        sticky == IF scaled % p.d = 0 THEN 0 ELSE 1
    IN  Round(Sign(p.n) * (2 * q + sticky), -(s + 1))

\* the exact value of a float
ToFraction(f) ==
    IF f.x >= 0 THEN Fraction(f.m * Pow2(f.x), 1) ELSE Fraction(f.m, Pow2(-f.x))

----------------------------------------------------------------------------
(* EigenGate: exponent, global shift, period, powers, equality and hash    *)

ApproxDenom == 60

RejectAtol == Fraction(1, 100000000)

Symbol(name) == [kind |-> "symbol", name |-> name]

\* EigenGate.__init__ of a subclass, lines 60-90
EigenGate(type, exponent, global_shift) ==
    [type |-> type, exponent |-> exponent, global_shift |-> global_shift,
     canonical_exponent_cached |-> None]

\* _eigen_components of three subclasses: the eigenvalue exponent factors.
\* "Z" and "Rz" are the examples of lines 121-137; "Id" has one eigenspace.
eigen_components(type) ==
    CASE type = "Z" -> <<Fraction(0, 1), Fraction(1, 1)>>
      [] type = "Rz" -> <<Fraction(-1, 2), Fraction(1, 2)>>
      [] type = "Id" -> <<Fraction(0, 1)>>

\* lines 239-243; t * r // gcd(t, r) divides by zero when t and r are both
\* 0.  The result is Some(t) or the exception raised.
RECURSIVE lcm_from(_, _)
lcm_from(t, vals) ==
    IF vals = <<>> THEN Some(t)
    ELSE IF Gcd(t, Head(vals)) = 0 THEN Raise("ZeroDivisionError")
    ELSE lcm_from(Abs((t * Head(vals)) \div Gcd(t, Head(vals))), Tail(vals))

lcm(vals) == lcm_from(1, vals)

\* lines 291-303, for a non-empty list of fractions
common_rational_period(rational_periods) ==
    LET common_denom == lcm([j \in 1..Len(rational_periods) |->
                                 rational_periods[j].d]).val
        int_periods == [j \in 1..Len(rational_periods) |->
                           (rational_periods[j].n * common_denom)
                               \div rational_periods[j].d]
        int_common_period == lcm(int_periods)
    IN  IF int_common_period.kind # "int" THEN int_common_period
        ELSE Fraction(int_common_period.val, common_denom)

FloatDiv(f, g) == ToFloat(FracDiv(ToFraction(f), ToFraction(g)))
FloatAbs(f) == [f EXCEPT !.m = Abs(f.m)]

\* lines 278-281: each float period rounded to a fraction n / approx_denom
approx_rational_periods(periods) ==
    [j \in 1..Len(periods) |->
        Fraction(NpRound(ToFraction(FloatMul(periods[j], Float(ApproxDenom, 0)))),
                 ApproxDenom)]

\* line 285: abs(p * np.round(common / p) - common) > reject_atol
rejected(p, common) ==
    LET multiple == FloatMul(p, Round(NpRound(ToFraction(FloatDiv(common, p))), 0))
        off == FloatAbs(FloatAdd(multiple, [common EXCEPT !.m = -common.m]))
    IN  FracLess(RejectAtol, ToFraction(off))

\* lines 246-288, for a list of floats
approximate_common_period(periods) ==
    IF periods = <<>> THEN None
    ELSE IF \E j \in 1..Len(periods) : periods[j].m = 0 THEN None
    ELSE LET rational == common_rational_period(approx_rational_periods(periods))
         IN  IF "kind" \in DOMAIN rational THEN rational
             ELSE LET common == ToFloat(rational)
                  IN  IF \E j \in 1..Len(periods) : rejected(periods[j], common)
                      THEN None
                      ELSE common

GateTypes == {"Z", "Rz", "Id"}
GlobalShifts == {Fraction(0, 1), Fraction(-1, 2)}

\* lines 172-174: abs(2/e) for the shifted exponents e that are not 0
real_periods(type, global_shift) ==
    LET components == eigen_components(type)
        exponents == [j \in 1..Len(components) |->
                         FracAdd(components[j], global_shift)]
        nonzero == SelectSeq(exponents, LAMBDA e : e.n # 0)
    IN  [j \in 1..Len(nonzero) |->
            ToFloat(FracAbs(FracDiv(Fraction(2, 1), nonzero[j])))]

\* _period of every gate class and global shift (it reads nothing else)
Periods ==
    [type \in GateTypes, global_shift \in GlobalShifts |->
        approximate_common_period(real_periods(type, global_shift))]

\* lines 163-175
period(gate) == Periods[gate.type, gate.global_shift]

\* Faulty variant: the exponent is never reduced.
canonical_exponent_NotReduced(gate) ==
    IF gate.canonical_exponent_cached # None THEN gate.canonical_exponent_cached
    ELSE gate.exponent

\* lines 183-191: the value of the property
canonical_exponent(gate) ==
    IF gate.canonical_exponent_cached # None THEN gate.canonical_exponent_cached
    ELSE LET p == period(gate)
         IN  IF p = None \/ p.m = 0 \/ gate.exponent.kind = "symbol"
             THEN gate.exponent
             ELSE FloatMod(gate.exponent, p)

\* lines 185-190: the property fills the cache
cached(gate) == [gate EXCEPT !.canonical_exponent_cached = canonical_exponent(gate)]

\* lines 193-196
identity_tuple(gate) == <<gate.type, canonical_exponent(gate), gate.global_shift>>

\* lines 198-201; NotImplemented for a gate of another type makes == false
eq(gate, other) ==
    IF other.type # gate.type THEN FALSE
    ELSE identity_tuple(gate) = identity_tuple(other)

\* lines 206-207: the hash, a function of the identity tuple
hash(gate) == [hash_of |-> identity_tuple(gate)]

\* Faulty variant: the global shift is not handed to the new gate.
with_exponent_ShiftDropped(gate, exponent) ==
    EigenGate(gate.type, exponent, Fraction(0, 1))

\* lines 93-106
with_exponent(gate, exponent) ==
    IF gate.global_shift = Fraction(0, 1)
    THEN EigenGate(gate.type, exponent, Fraction(0, 1))
    ELSE EigenGate(gate.type, exponent, gate.global_shift)

\* lines 177-181, for a float exponent of the gate and a float argument
pow(gate, exponent) == with_exponent(gate, FloatMul(gate.exponent, exponent))

\* the floats n * 2^x and their negatives, for n up to max_n and x in lo..hi
Floats(max_n, lo, hi) ==
    {Float(s * n, x) : s \in {-1, 1}, n \in 0..max_n, x \in lo..hi}

\* gate.__eq__(other) / gate == other, on the gates named x and y
Eq(x, y) ==
    /\ pc \in {"direct", "hashed"}
    /\ heap' = [heap EXCEPT ![x] = cached(heap[x]), ![y] = cached(heap[y])]
    /\ ret' = Bool(eq(heap'[x], heap'[y]))
    /\ pc' = "done"
    /\ UNCHANGED <<moments, ops, op_index, k, strategy, i, call, step>>

----------------------------------------------------------------------------
(* (gate**a)**b against gate**(a*b) *)

MaxPowMantissa == 7

\* exponents and arguments: the multiples of 1/2 and of 1 up to
\* MaxPowMantissa times the unit
PowInputs == Floats(MaxPowMantissa, -1, 0)

NoGate == [type |-> "none"]

InitPow ==
    /\ \E type \in GateTypes, global_shift \in GlobalShifts, exponent \in PowInputs :
           heap = [self |-> EigenGate(type, exponent, global_shift),
                   first |-> NoGate, second |-> NoGate, direct |-> NoGate]
    /\ moments = <<>>
    /\ pc = "idle"
    /\ ops = <<>>
    /\ op_index = 0
    /\ k = 0
    /\ strategy = "NEW_THEN_INLINE"
    /\ i = 0
    /\ ret = None
    /\ call = NoCall
    /\ step = NoStep

\* heap[result] = heap[base] ** exponent
Pow(base, exponent, result, from, to) ==
    /\ pc = from
    /\ heap' = [heap EXCEPT ![result] = pow(heap[base], exponent)]
    /\ pc' = to
    /\ UNCHANGED <<moments, ops, op_index, k, strategy, i, ret, step>>

\* first = self ** a
PowFirst(a) ==
    /\ Pow("self", a, "first", "idle", "first")
    /\ call' = [name |-> "__pow__", a |-> a, before |-> heap]

\* second = first ** b
PowSecond(b) ==
    /\ Pow("first", b, "second", "first", "second")
    /\ call' = [name |-> "__pow__", a |-> call.a, b |-> b, before |-> call.before]

\* direct = self ** (a * b)
PowDirect ==
    /\ Pow("self", FloatMul(call.a, call.b), "direct", "second", "direct")
    /\ UNCHANGED call

NextPow ==
    \/ /\ pc = "idle"
       /\ \E a \in PowInputs : PowFirst(a)
    \/ /\ pc = "first"
       /\ \E b \in PowInputs : PowSecond(b)
    \/ PowDirect
    \/ /\ pc = "direct"
       /\ Eq("second", "direct")

SpecPow == InitPow /\ [][NextPow]_vars

PowCompared == pc = "done" /\ call.name = "__pow__"

\* No multiplication on the way to the two exponents was rounded.
NothingRounded ==
    LET exact == FracMul(FracMul(ToFraction(call.before["self"].exponent),
                                 ToFraction(call.a)), ToFraction(call.b))
    IN  /\ ToFraction(heap["second"].exponent) = exact
        /\ ToFraction(heap["direct"].exponent) = exact

\* __pow__ kept type and global shift and left the receiver alone.
PowKeepsGate ==
    /\ \A g \in {"first", "second", "direct"} :
           /\ heap[g].type = call.before["self"].type
           /\ heap[g].global_shift = call.before["self"].global_shift
    /\ heap["self"] = call.before["self"]

----------------------------------------------------------------------------
(* C19 as stated: for every gate with a numeric exponent and all numeric   *)
(* a and b, (gate**a)**b == gate**(a*b): same type, same global shift and  *)
(* equal canonical exponent; __pow__ preserves the global shift and never  *)
(* mutates the receiver.                                                   *)
C19_PowComposes ==
    PowCompared =>
        /\ ret = Bool(TRUE)
        /\ canonical_exponent(heap["second"]) = canonical_exponent(heap["direct"])
        /\ PowKeepsGate

(* C19 amended: (gate**a)**b has the exponent (e*a)*b and gate**(a*b) the  *)
(* exponent e*(a*b), each product rounded to a float; both have the type   *)
(* and global shift of gate, and they are equal whenever no product was    *)
(* rounded; __pow__ never mutates the receiver.                            *)
C19_PowComposesUnlessRounded ==
    PowCompared =>
        LET e == call.before["self"].exponent
        IN  /\ heap["second"].exponent = FloatMul(FloatMul(e, call.a), call.b)
            /\ heap["direct"].exponent = FloatMul(e, FloatMul(call.a, call.b))
            /\ PowKeepsGate
            /\ NothingRounded => ret = Bool(TRUE)
            /\ ret = Bool(canonical_exponent(heap["second"])
                              = canonical_exponent(heap["direct"]))

\* Powers of a gate with a non-zero global shift, taken without rounding,
\* whose exponent is reduced modulo the period.
C19_Witness ==
    /\ PowCompared
    /\ NothingRounded
    /\ ret = Bool(TRUE)
    /\ call.before["self"].global_shift # Fraction(0, 1)
    /\ call.a \notin {Float(0, 0), Float(1, 0)}
    /\ call.b \notin {Float(0, 0), Float(1, 0)}
    /\ heap["second"].canonical_exponent_cached # heap["second"].exponent

----------------------------------------------------------------------------
(* Equality and hash of two gates of one type and global shift *)

MaxEqMantissa == 3
MaxEqDepth == 5

\* numeric exponents: n * 2^x for n up to MaxEqMantissa and x from
\* -MaxEqDepth to 0, and their negatives
EqInputs == Floats(MaxEqMantissa, -MaxEqDepth, 0)

Symbols == {Symbol("a"), Symbol("b")}

InitEq ==
    /\ \E type \in GateTypes, global_shift \in GlobalShifts,
          e1 \in EqInputs \cup Symbols, e2 \in EqInputs \cup Symbols :
           heap = [self |-> EigenGate(type, e1, global_shift),
                   other |-> EigenGate(type, e2, global_shift)]
    /\ moments = <<>>
    /\ pc = "idle"
    /\ ops = <<>>
    /\ op_index = 0
    /\ k = 0
    /\ strategy = "NEW_THEN_INLINE"
    /\ i = 0
    /\ ret = None
    /\ call = NoCall
    /\ step = NoStep

\* hash(gate) on the gate named x; the hashes taken so far are kept
Hash(x, from, to) ==
    /\ pc = from
    /\ heap' = [heap EXCEPT ![x] = cached(heap[x])]
    /\ ret' = hash(heap'[x])
    /\ step' = [n |-> step.n + 1, loop |-> "__hash__",
                hashes |-> (IF step.n = 0 THEN <<>> ELSE step.hashes)
                               \o <<hash(heap'[x])>>]
    /\ call' = [name |-> "__eq__", before |-> IF from = "idle" THEN heap
                                              ELSE call.before]
    /\ pc' = to
    /\ UNCHANGED <<moments, ops, op_index, k, strategy, i>>

NextEq ==
    \/ Hash("self", "idle", "hashed_self")
    \/ Hash("other", "hashed_self", "hashed")
    \/ /\ pc = "hashed"
       /\ Eq("self", "other")

SpecEq == InitEq /\ [][NextEq]_vars

EqCompared == pc = "done" /\ call.name = "__eq__"

Numeric(gate) == gate.exponent.kind = "float"

\* the floats e1 and e2 differ by an integer multiple of the float p
Congruent(e1, e2, p) ==
    FracDiv(FracAdd(ToFraction(e1), FracMul(Fraction(-1, 1), ToFraction(e2))),
            ToFraction(p)).d = 1

\* e - p * floor(e / p), exactly
Residue(e, p) ==
    LET q == FracDiv(ToFraction(e), ToFraction(p))
    IN  FracAdd(ToFraction(e),
                FracMul(Fraction(-(q.n \div q.d), 1), ToFraction(p)))

\* e % p was rounded: the canonical exponent is not the exact residue
RemainderRounded(gate, p) ==
    ToFraction(gate.canonical_exponent_cached) # Residue(gate.exponent, p)

\* What is claimed of symbolic exponents: they are never reduced, symbolic
\* gates are equal only when their symbols are, and never equal to a
\* numeric gate.
SymbolicRule ==
    /\ \A g \in {"self", "other"} :
           ~Numeric(heap[g]) => heap[g].canonical_exponent_cached = heap[g].exponent
    /\ (~Numeric(heap["self"]) /\ ~Numeric(heap["other"])) =>
           ret = Bool(heap["self"].exponent.name = heap["other"].exponent.name)
    /\ (Numeric(heap["self"]) # Numeric(heap["other"])) => ret = Bool(FALSE)

BothNumeric == Numeric(heap["self"]) /\ Numeric(heap["other"])

----------------------------------------------------------------------------
----------------------------------------------------------------------------
(* _approximate_common_period and _common_rational_period on lists of      *)
(* non-negative floats                                                     *)

MaxPeriods == 2
MaxPeriodDepth == 7
MaxPeriodExp == 2

\* the periods 0 and 2^x for x from -MaxPeriodDepth to MaxPeriodExp; for
\* these p * approx_denom is exact as it is for doubles, and the smallest
\* ones round to 0/60
PeriodInputs ==
    {Float(0, 0)} \cup {Float(1, x) : x \in -MaxPeriodDepth..MaxPeriodExp}

InitPeriod ==
    /\ \E n \in 0..MaxPeriods : \E periods \in [1..n -> PeriodInputs] :
           heap = [periods |-> periods]
    /\ moments = <<>>
    /\ pc = "idle"
    /\ ops = <<>>
    /\ op_index = 0
    /\ k = 0
    /\ strategy = "NEW_THEN_INLINE"
    /\ i = 0
    /\ ret = None
    /\ call = NoCall
    /\ step = NoStep

\* _approximate_common_period(periods); the call it makes to
\* _common_rational_period is recorded with its argument and result
ApproximateCommonPeriod ==
    /\ pc = "idle"
    /\ call' = [name |-> "_approximate_common_period", periods |-> heap.periods]
    /\ step' = IF heap.periods = <<>> \/ \E j \in 1..Len(heap.periods) : heap.periods[j].m = 0
               THEN NoStep
               ELSE [n |-> 1, loop |-> "_common_rational_period",
                     rational_periods |-> approx_rational_periods(heap.periods),
                     result |-> common_rational_period(
                                    approx_rational_periods(heap.periods))]
    /\ ret' = approximate_common_period(heap.periods)
    /\ pc' = "done"
    /\ UNCHANGED <<moments, ops, op_index, k, strategy, i, heap>>

\* the result is dropped and another list is taken
NextPeriods ==
    /\ pc = "done"
    /\ call.name = "_approximate_common_period"
    /\ \E n \in 0..MaxPeriods : \E periods \in [1..n -> PeriodInputs] :
           heap' = [periods |-> periods]
    /\ pc' = "idle"
    /\ ret' = None
    /\ call' = NoCall
    /\ step' = NoStep
    /\ UNCHANGED <<moments, ops, op_index, k, strategy, i>>

NextPeriod == ApproximateCommonPeriod \/ NextPeriods

SpecPeriod == InitPeriod /\ [][NextPeriod]_vars

PeriodComputed == pc = "done" /\ call.name = "_approximate_common_period"

\* c / p is an integer, for fractions c and p # 0
IsMultiple(c, p) == p.n # 0 /\ FracDiv(c, p).d = 1

\* the float x is within reject_atol of an integer multiple of the float p
NearMultiple(x, p) ==
    LET nearest == NpRound(FracDiv(ToFraction(x), ToFraction(p)))
    IN  \E n \in {nearest - 1, nearest, nearest + 1} :
            ~FracLess(RejectAtol,
                      FracAbs(FracAdd(ToFraction(x),
                                      FracMul(Fraction(-n, 1), ToFraction(p)))))

\* the smallest positive fraction that is an integer multiple of every
\* fraction of the list: it is such a multiple, and no smaller positive
\* fraction with a denominator dividing the list's denominators is one
IsLeastCommonMultiple(c, fractions) ==
    /\ "kind" \notin DOMAIN c
    /\ c.n > 0
    /\ \A j \in 1..Len(fractions) : IsMultiple(c, fractions[j])
    /\ \A n \in 1..(c.n * ApproxDenom) :
           LET smaller == Fraction(n, c.d * ApproxDenom)
           IN  FracLess(smaller, c) =>
                   \E j \in 1..Len(fractions) : ~IsMultiple(smaller, fractions[j])

----------------------------------------------------------------------------
(* C21: _approximate_common_period(periods) returns None for an empty list *)
(* and for a list containing 0; otherwise it rounds each period to n/60    *)
(* and returns the least common integer multiple of the rounded rationals  *)
(* when that value is within 1e-8 of an integer multiple of every given    *)
(* period, and None otherwise; [2.0, 4.0] gives 4.0.                       *)
(* _common_rational_period returns the smallest positive c such that c/p   *)
(* is an integer for every input fraction p.                               *)
C21_CommonPeriodRule ==
    PeriodComputed =>
        LET periods == call.periods
        IN  /\ (periods = <<>> \/ \E j \in 1..Len(periods) : periods[j].m = 0)
                   => ret = None
            /\ periods = <<Float(2, 0), Float(4, 0)>> => ret = Float(4, 0)
            /\ step.n = 1 =>
                   /\ \A j \in 1..Len(periods) :
                          /\ step.rational_periods[j].d \in
                                 {d \in 1..ApproxDenom : ApproxDenom % d = 0}
                          /\ LET n60 == FracMul(step.rational_periods[j],
                                                Fraction(ApproxDenom, 1))
                                 exact == FracMul(ToFraction(periods[j]),
                                                  Fraction(ApproxDenom, 1))
                             IN  /\ n60.d = 1
                                 /\ ~FracLess(Fraction(1, 2),
                                              FracAbs(FracAdd(n60, Fraction(-exact.n, exact.d))))
                   /\ IsLeastCommonMultiple(step.result, step.rational_periods)
                   /\ ret = IF \A j \in 1..Len(periods) :
                                    NearMultiple(ToFloat(step.result), periods[j])
                            THEN ToFloat(step.result)
                            ELSE None

----------------------------------------------------------------------------
(* The unitary of an EigenGate and the resolution of its symbol *)

NotImplemented == [kind |-> "NotImplemented"]

\* lines 231-232
is_parameterized(gate) == gate.exponent.kind = "symbol"

\* lines 218-219
has_unitary(gate) == ~is_parameterized(gate)

\* lines 221-229: the sum over the eigen components of
\* projector * 1j**(2 * e * (half_turns + global_shift)), as the list of the
\* powers of 1j by which the projectors are scaled
unitary_method(gate) ==
    IF is_parameterized(gate) THEN NotImplemented
    ELSE LET components == eigen_components(gate.type)
         IN  [kind |-> "ndarray",
              terms |-> [j \in 1..Len(components) |->
                            [projector |-> j,
                             power_of_1j |->
                                 FloatMul(FloatMul(Float(2, 0), gate.exponent),
                                          ToFloat(FracAdd(components[j],
                                                          gate.global_shift)))]]]

NoDefault == [kind |-> "RaiseTypeError"]

\* cirq.unitary(val, default): the result of val._unitary_(), and for
\* NotImplemented the default, or TypeError when no default is given
unitary(gate, default) ==
    LET result == unitary_method(gate)
    IN  IF result # NotImplemented THEN result
        ELSE IF default = NoDefault THEN TypeError
        ELSE default

\* param_resolver.value_of(value): the entry of a symbol's name, a number
\* as it is
value_of(param_resolver, value) ==
    IF value.kind = "symbol" THEN param_resolver[value.name] ELSE value

\* Faulty variant: the gate is returned with its exponent as it was.
resolve_parameters_Unresolved(gate, param_resolver) ==
    with_exponent(gate, gate.exponent)

\* lines 234-236
resolve_parameters(gate, param_resolver) ==
    with_exponent(gate, value_of(param_resolver, gate.exponent))

MaxResolveMantissa == 3

\* the numbers of resolvers and of numeric exponents: multiples of 1/2
ResolveValues == Floats(MaxResolveMantissa, -1, -1)

SymbolNames == {s.name : s \in Symbols}

Defaults == {NoDefault, None, Some(1), NotImplemented}

InitResolve ==
    /\ \E type \in GateTypes, global_shift \in GlobalShifts,
          exponent \in ResolveValues \cup Symbols :
           heap = [self |-> EigenGate(type, exponent, global_shift),
                   resolved |-> NoGate]
    /\ moments = <<>>
    /\ pc = "idle"
    /\ ops = <<>>
    /\ op_index = 0
    /\ k = 0
    /\ strategy = "NEW_THEN_INLINE"
    /\ i = 0
    /\ ret = None
    /\ call = NoCall
    /\ step = NoStep

\* the gate a call is made on: the constructed one, or the resolved one once
\* _resolve_parameters_ has returned it
Receiver == IF pc = "resolved" THEN "resolved" ELSE "self"

Probe(name, arg, result) ==
    /\ pc \in {"idle", "resolved"}
    /\ call' = [name |-> name, on |-> Receiver, arg |-> arg, before |-> heap]
    /\ ret' = result
    /\ pc' = "done"
    /\ UNCHANGED <<moments, ops, op_index, k, strategy, i, step, heap>>

HasUnitary == Probe("_has_unitary_", None, Bool(has_unitary(heap[Receiver])))

UnitaryMethod == Probe("_unitary_", None, unitary_method(heap[Receiver]))

Unitary(default) == Probe("unitary", default, unitary(heap[Receiver], default))

ResolveParameters(param_resolver) ==
    /\ pc = "idle"
    /\ heap' = [heap EXCEPT !.resolved = resolve_parameters(heap.self, param_resolver)]
    /\ step' = [n |-> 1, loop |-> "_resolve_parameters_",
                param_resolver |-> param_resolver, before |-> heap]
    /\ pc' = "resolved"
    /\ UNCHANGED <<moments, ops, op_index, k, strategy, i, ret, call>>

NextResolve ==
    \/ HasUnitary
    \/ UnitaryMethod
    \/ /\ pc \in {"idle", "resolved"}
       /\ \E default \in Defaults : Unitary(default)
    \/ /\ pc = "idle"
       /\ \E param_resolver \in [SymbolNames -> ResolveValues] :
              ResolveParameters(param_resolver)

SpecResolve == InitResolve /\ [][NextResolve]_vars

Probed(name) == pc = "done" /\ call.name = name

\* what a probe answers on a gate with an unresolved symbol
NoUnitaryByValue ==
    /\ Probed("_has_unitary_") => ret = Bool(FALSE)
    /\ Probed("_unitary_") => ret = NotImplemented
    /\ (Probed("unitary") /\ call.arg # NoDefault) => ret = call.arg

\* what a probe answers on a gate with a numeric exponent
HasUnitaryValue ==
    /\ Probed("_has_unitary_") => ret = Bool(TRUE)
    /\ Probed("_unitary_") =>
           /\ ret.kind = "ndarray"
           /\ Len(ret.terms) = Len(eigen_components(heap[call.on].type))
    /\ Probed("unitary") => ret = unitary_method(heap[call.on])

----------------------------------------------------------------------------
(* C22: an EigenGate whose exponent is an unresolved Symbol reports no     *)
(* unitary by value, not by exception: _has_unitary_() is false and        *)
(* _unitary_() returns NotImplemented, so cirq.unitary(gate, default)      *)
(* yields the default; after _resolve_parameters_ has replaced the symbol  *)
(* by the resolver's number, the gate of the same type and global shift    *)
(* has a unitary.  No call changes the gate it is made on.                 *)
C22_NoUnitaryUntilResolved ==
    /\ pc = "done" =>
           /\ heap = call.before
           /\ is_parameterized(heap[call.on]) => NoUnitaryByValue
           /\ (call.on = "resolved" /\ is_parameterized(heap.self)) =>
                  HasUnitaryValue
    /\ (step.n = 1 /\ step.loop = "_resolve_parameters_") =>
           /\ heap.self = step.before.self
           /\ heap.resolved.type = heap.self.type
           /\ heap.resolved.global_shift = heap.self.global_shift
           /\ heap.resolved.exponent =
                  IF is_parameterized(heap.self)
                  THEN step.param_resolver[heap.self.exponent.name]
                  ELSE heap.self.exponent

\* A gate with a symbol and a non-zero global shift was resolved, and
\* cirq.unitary of the resolved gate, called with a default, gave a matrix.
C22_Witness ==
    /\ Probed("unitary")
    /\ call.on = "resolved"
    /\ call.arg = None
    /\ is_parameterized(heap.self)
    /\ heap.self.global_shift # Fraction(0, 1)
    /\ ret.kind = "ndarray"

\* cirq.unitary of a gate with a symbol, with a default, gave the default.
C22_WitnessDefault ==
    /\ Probed("unitary")
    /\ call.on = "self"
    /\ call.arg = Some(1)
    /\ is_parameterized(heap.self)
    /\ ret = Some(1)

----------------------------------------------------------------------------
(* Simulator.moment_steps: a lazy sequence of step results, one per moment *)

MaxStepLen == 3

\* the generator moment_steps(circuit) returns: nothing is simulated before
\* the first advance; "state" is the list of moments applied to the
\* generator's own state vector, starting from the initial state
moment_steps(ms) ==
    [circuit |-> ms, position |-> 0, state |-> <<>>, steps |-> <<>>,
     exhausted |-> FALSE]

\* Faulty variant: the generator stops one moment early.
next_step_StopsEarly(gen) ==
    IF gen.position + 1 < Len(gen.circuit)
    THEN [gen EXCEPT !.position = @ + 1,
                     !.state = Append(@, gen.circuit[gen.position + 1]),
                     !.steps = Append(@, [moment |-> gen.position + 1,
                                          state |-> Append(gen.state,
                                                           gen.circuit[gen.position + 1])])]
    ELSE [gen EXCEPT !.exhausted = TRUE]

\* one advance of the generator: the next moment is applied to the state
\* and a step result is yielded, or the generator ends
next_step(gen) ==
    IF gen.position < Len(gen.circuit)
    THEN [gen EXCEPT !.position = @ + 1,
                     !.state = Append(@, gen.circuit[gen.position + 1]),
                     !.steps = Append(@, [moment |-> gen.position + 1,
                                          state |-> Append(gen.state,
                                                           gen.circuit[gen.position + 1])])]
    ELSE [gen EXCEPT !.exhausted = TRUE]

Generators == {"first", "second"}

InitSteps ==
    /\ moments \in UNION {[1..n -> AlgebraMoments] : n \in 0..MaxStepLen}
    /\ heap = [g \in Generators |-> NoGate]
    /\ pc = "idle"
    /\ ops = <<>>
    /\ op_index = 0
    /\ k = 0
    /\ strategy = "NEW_THEN_INLINE"
    /\ i = 0
    /\ ret = None
    /\ call = NoCall
    /\ step = NoStep

\* simulator.moment_steps(circuit)
MomentSteps(g) ==
    /\ heap[g] = NoGate
    /\ heap' = [heap EXCEPT ![g] = moment_steps(moments)]
    /\ call' = [name |-> "moment_steps", on |-> g, before |-> heap]
    /\ UNCHANGED <<moments, pc, ops, op_index, k, strategy, i, ret, step>>

\* next(steps) on a generator that has not ended
NextStep(g) ==
    /\ heap[g] # NoGate
    /\ ~heap[g].exhausted
    /\ heap' = [heap EXCEPT ![g] = next_step(heap[g])]
    /\ call' = [name |-> "__next__", on |-> g, before |-> heap]
    /\ UNCHANGED <<moments, pc, ops, op_index, k, strategy, i, ret, step>>

NextSteps == \E g \in Generators : MomentSteps(g) \/ NextStep(g)

SpecSteps == InitSteps /\ [][NextSteps]_vars

Prefix(s, n) == SubSeq(s, 1, n)

\* the steps a generator has yielded are those of the first moments, in
\* order, each taken after exactly the moments up to its own were applied
YieldedInOrder(gen) ==
    /\ Len(gen.steps) = gen.position
    /\ gen.position <= Len(moments)
    /\ \A j \in 1..Len(gen.steps) :
           /\ gen.steps[j].moment = j
           /\ gen.steps[j].state = Prefix(moments, j)

----------------------------------------------------------------------------
(* C23: Simulator.moment_steps(circuit) yields exactly len(circuit) step   *)
(* results, one per moment in circuit order, each produced only after all  *)
(* earlier moments were applied; two separate moment_steps calls over the  *)
(* same circuit each replay independently from the initial state and yield *)
(* the same number of steps.                                               *)
C23_OneStepPerMoment ==
    /\ \A g \in Generators :
           heap[g] # NoGate =>
               /\ YieldedInOrder(heap[g])
               /\ heap[g].exhausted => Len(heap[g].steps) = Len(moments)
    /\ call.name \in {"moment_steps", "__next__"} =>
           \A g \in Generators \ {call.on} : heap[g] = call.before[g]
    /\ (call.name = "moment_steps") => heap[call.on].steps = <<>>

\* Both generators have ended after being advanced in turn on a circuit of
\* more than one moment.
C23_Witness ==
    /\ Len(moments) > 1
    /\ \A g \in Generators : heap[g] # NoGate /\ heap[g].exhausted
    /\ Len(heap["first"].steps) = Len(heap["second"].steps)
    /\ moments[1] # moments[2]

----------------------------------------------------------------------------
(* Extensions.cast and Extensions.try_cast (cirq/extension), with the      *)
(* classes of extensions_test.py                                           *)

\* inspect.getmro(cls): the class, its bases, object
mro(cls) ==
    CASE cls = "ChildType" -> <<"ChildType", "DesiredType", "object">>
      [] cls = "WrapType" -> <<"WrapType", "DesiredType", "object">>
      [] cls = "PotentialOther" ->
             <<"PotentialOther", "PotentialImplementation", "object">>
      [] cls = "object" -> <<"object">>
      [] OTHER -> <<cls, "object">>

isinstance(value, cls) == \E j \in 1..Len(mro(value.type)) : mro(value.type)[j] = cls

\* the values cast in the tests: None, '', instances of the test classes,
\* and a PotentialImplementation that is or is not an OtherType
CastValues ==
    {[type |-> t, is_other |-> FALSE] :
        t \in {"NoneType", "str", "ChildType", "OtherType", "UnrelatedType",
               "PotentialOther"}}
    \cup {[type |-> "PotentialOther", is_other |-> TRUE]}

DesiredTypes == {"DesiredType", "OtherType", "UnrelatedType"}

\* the classes an adapter may be registered for
ActualTypes == {"object", "DesiredType", "OtherType", "UnrelatedType"}

\* wrapper(actual_value) of the adapter registered for a class
Wrapped(registered_for, value) ==
    [type |-> "WrapType", by |-> registered_for, other |-> value]

\* PotentialOther.try_cast_to, extensions_test.py lines 129-137
try_cast_to(value, desired_type) ==
    IF desired_type = "OtherType" /\ value.is_other
    THEN [type |-> "OtherType", is_other |-> FALSE]
    ELSE None

RECURSIVE first_registered(_, _)
first_registered(classes, actual_to_wrapper) ==
    IF classes = <<>> THEN None
    ELSE IF Head(classes) \in actual_to_wrapper THEN Raise(Head(classes))
    ELSE first_registered(Tail(classes), actual_to_wrapper)

\* Faulty variant: only the adapter registered for object is looked up.
try_cast_ObjectOnly(desired_to_actual_to_wrapper, actual_value, desired_type) ==
    IF "object" \in desired_to_actual_to_wrapper[desired_type]
    THEN Wrapped("object", actual_value)
    ELSE IF isinstance(actual_value, desired_type) THEN actual_value
    ELSE IF isinstance(actual_value, "PotentialImplementation")
    THEN try_cast_to(actual_value, desired_type)
    ELSE None

\* Extensions.try_cast: the adapter of the most specific registered class
\* of the value, then the value itself if it is an instance, then what a
\* PotentialImplementation answers, then None
try_cast(desired_to_actual_to_wrapper, actual_value, desired_type) ==
    LET found == first_registered(mro(actual_value.type),
                                  desired_to_actual_to_wrapper[desired_type])
    IN  IF found # None THEN Wrapped(found.kind, actual_value)
        ELSE IF isinstance(actual_value, desired_type) THEN actual_value
        ELSE IF isinstance(actual_value, "PotentialImplementation")
        THEN try_cast_to(actual_value, desired_type)
        ELSE None

\* Extensions.cast: try_cast, and TypeError for None
cast(desired_to_actual_to_wrapper, actual_value, desired_type) ==
    LET result == try_cast(desired_to_actual_to_wrapper, actual_value, desired_type)
    IN  IF result = None THEN TypeError ELSE result

\* Extensions(desired_to_actual_to_wrapper): adapters for DesiredType only,
\* as in the tests; which classes have one is the argument
InitCast ==
    /\ \E registered \in SUBSET ActualTypes :
           heap = [desired_to_actual_to_wrapper |->
                       [d \in DesiredTypes |->
                           IF d = "DesiredType" THEN registered ELSE {}]]
    /\ moments = <<>>
    /\ pc = "idle"
    /\ ops = <<>>
    /\ op_index = 0
    /\ k = 0
    /\ strategy = "NEW_THEN_INLINE"
    /\ i = 0
    /\ ret = None
    /\ call = NoCall
    /\ step = NoStep

Cast(actual_value, desired_type) ==
    /\ call' = [name |-> "cast", actual_value |-> actual_value,
                desired_type |-> desired_type]
    /\ ret' = cast(heap.desired_to_actual_to_wrapper, actual_value, desired_type)
    /\ pc' = "done"
    /\ UNCHANGED <<moments, ops, op_index, k, strategy, i, step, heap>>

TryCast(actual_value, desired_type) ==
    /\ call' = [name |-> "try_cast", actual_value |-> actual_value,
                desired_type |-> desired_type]
    /\ ret' = try_cast(heap.desired_to_actual_to_wrapper, actual_value, desired_type)
    /\ pc' = "done"
    /\ UNCHANGED <<moments, ops, op_index, k, strategy, i, step, heap>>

NextCast ==
    \/ /\ pc = "idle"
       /\ \E actual_value \in CastValues, desired_type \in DesiredTypes :
              Cast(actual_value, desired_type)
    \/ /\ pc = "idle"
       /\ \E actual_value \in CastValues, desired_type \in DesiredTypes :
              TryCast(actual_value, desired_type)

SpecCast == InitCast /\ [][NextCast]_vars

CastDone == pc = "done" /\ call.name \in {"cast", "try_cast"}

Failure == IF call.name = "cast" THEN TypeError ELSE None

Registered == heap.desired_to_actual_to_wrapper[call.desired_type]

----------------------------------------------------------------------------
----------------------------------------------------------------------------
(* The text diagram: _draw_moment_in_diagram and _formatted_exponent       *)

MaxMomentOps == 2

DiagramQubits == <<"a", "b", "c">>

\* qubit_map, lines 642-643: the row of each qubit
Row(q) == CHOOSE r \in 0..(Len(DiagramQubits) - 1) : DiagramQubits[r + 1] = q

\* TextDiagramDrawer: the text written into each cell, as the list of the
\* strings written there, and the vertical lines
TextDiagramDrawer == [entries |-> <<>>, vertical_lines |-> {}]

Cells(diagram) == DOMAIN diagram.entries

\* TextDiagramDrawer.write: text is appended to what the cell holds
write(diagram, x, y, text) ==
    LET cell == <<x, y>>
        old == IF cell \in Cells(diagram) THEN diagram.entries[cell] ELSE <<>>
    IN  [diagram EXCEPT !.entries =
            [c \in Cells(diagram) \cup {cell} |->
                IF c = cell THEN Append(old, text) ELSE diagram.entries[c]]]

\* TextDiagramDrawer.vertical_line
vertical_line(diagram, x, y1, y2) ==
    [diagram EXCEPT !.vertical_lines = @ \cup {[x |-> x, y1 |-> y1, y2 |-> y2]}]

\* TextDiagramDrawer.content_present: a written cell, or a cell strictly
\* inside a vertical line
content_present(diagram, x, y) ==
    \/ <<x, y>> \in Cells(diagram)
    \/ \E v \in diagram.vertical_lines : v.x = x /\ v.y1 < y /\ y < v.y2

\* TextDiagramDrawer.width: one more than the largest column in use
width(diagram) ==
    LET columns == {c[1] : c \in Cells(diagram)}
                       \cup {v.x : v \in diagram.vertical_lines}
    IN  IF columns = {} THEN 0
        ELSE 1 + CHOOSE x \in columns : \A other \in columns : other <= x

\* a float exponent 0.d1..dn or 1.0, with its sign
Decimal(negative, whole, digits, places) ==
    [kind |-> "decimal", negative |-> negative, whole |-> whole,
     digits |-> digits, places |-> places]

\* '{:.precision}'.format(value) for 0 < |value| < 1: the value rounded to
\* that many significant digits, ties to the even digit
format_float(value, precision) ==
    IF value.places <= precision THEN value
    ELSE LET drop == 10 ^ (value.places - precision)
             q == value.digits \div drop
             r == value.digits % drop
             up == 2 * r > drop \/ (2 * r = drop /\ q % 2 = 1)
         IN  [value EXCEPT !.digits = IF up THEN q + 1 ELSE q,
                           !.places = precision]

Text(s) == [kind |-> "str", s |-> s]

IsOne(exponent) ==
    \/ exponent = Some(1)
    \/ exponent.kind = "decimal" /\ ~exponent.negative /\ exponent.whole = 1
           /\ exponent.digits = 0

IsMinusOne(exponent) ==
    \/ exponent = Some(-1)
    \/ exponent.kind = "decimal" /\ exponent.negative /\ exponent.whole = 1
           /\ exponent.digits = 0

\* '+' in s or ' ' in s or '-' in s[1:], for the string s of a symbol
Confusing(s) ==
    \/ \E j \in 1..Len(s) : s[j] \in {"+", " "}
    \/ \E j \in 2..Len(s) : s[j] = "-"

\* lines 698-719
formatted_exponent(exponent, precision) ==
    IF IsOne(exponent) THEN None
    ELSE IF IsMinusOne(exponent) THEN Text(<<"-", "1">>)
    ELSE IF exponent.kind = "decimal"
    THEN IF precision # None THEN format_float(exponent, precision.val)
         ELSE exponent
    ELSE IF exponent.kind = "int" THEN Text(<<exponent.val>>)
    ELSE IF Confusing(exponent.name)
    THEN Text(<<"(">> \o exponent.name \o <<")">>)
    ELSE Text(exponent.name)

\* info.wire_symbols: one label per qubit of the operation, in the order of
\* op.qubits (lines 688-693)
wire_symbols(op) ==
    IF Len(op.qubits) # 1
    THEN [j \in 1..Len(op.qubits) |-> Text(<<"G", ":", j - 1>>)]
    ELSE <<Text(<<"G">>)>>

MinOf(S) == CHOOSE x \in S : \A y \in S : x <= y
MaxOf(S) == CHOOSE x \in S : \A y \in S : y <= x

\* lines 738-741: the first column from x on with no content in rows y1..y2
RECURSIVE available_column(_, _, _, _)
available_column(diagram, x, y1, y2) ==
    IF \E y \in y1..y2 : content_present(diagram, x, y)
    THEN available_column(diagram, x + 1, y1, y2)
    ELSE x

RECURSIVE write_labels(_, _, _, _)
write_labels(diagram, x, op, j) ==
    IF j > Len(op.qubits) THEN diagram
    ELSE write_labels(write(diagram, x, Row(op.qubits[j]), wire_symbols(op)[j]),
                      x, op, j + 1)

Caret(exponent) == [kind |-> "caret", exponent |-> exponent]

\* lines 733-761: one operation drawn
draw_operation(diagram, op, x0, precision) ==
    LET indices == {Row(op.qubits[j]) : j \in 1..Len(op.qubits)}
        y1 == MinOf(indices)
        y2 == MaxOf(indices)
        x == available_column(diagram, x0, y1, y2)
        lined == IF y2 > y1 THEN vertical_line(diagram, x, y1, y2) ELSE diagram
        labelled == write_labels(lined, x, op, 1)
        exponent == formatted_exponent(op.exponent, precision)
    IN  IF exponent # None THEN write(labelled, x, y2, Caret(exponent))
        ELSE labelled

\* op.qubits: one qubit, or two different qubits in either order
QubitTuples ==
    {<<q>> : q \in {"a", "b", "c"}}
        \cup {qs \in {"a", "b", "c"} \X {"a", "b", "c"} : qs[1] # qs[2]}

Exponents ==
    {Some(1), Some(-1), Decimal(FALSE, 1, 0, 1), Decimal(TRUE, 1, 0, 1),
     Decimal(FALSE, 0, 125, 3), Symbol(<<"a">>), Symbol(<<"a", "-", "b">>)}

Precisions == {None, Some(1), Some(3)}

DiagramOps == {[qubits |-> qs, exponent |-> e] : qs \in QubitTuples, e \in Exponents}

TupleQubits(qs) == {qs[j] : j \in 1..Len(qs)}

\* Moment(operations): operations on pairwise different qubits
DiagramMoments ==
    {m \in UNION {[1..n -> DiagramOps] : n \in 0..MaxMomentOps} :
        \A x, y \in 1..Len(m) :
            x # y => TupleQubits(m[x].qubits) \cap TupleQubits(m[y].qubits) = {}}

RECURSIVE named(_, _)
named(diagram, row) ==
    IF row >= Len(DiagramQubits) THEN diagram
    ELSE named(write(diagram, 0, row, Text(<<DiagramQubits[row + 1]>>)), row + 1)

\* lines 645-646: the qubit names are in column 0
InitDiagram ==
    /\ heap = [diagram |-> named(TextDiagramDrawer, 0), placed |-> <<>>]
    /\ moments = <<>>
    /\ pc = "idle"
    /\ ops = <<>>
    /\ op_index = 0
    /\ k = 0
    /\ strategy = "NEW_THEN_INLINE"
    /\ i = 0
    /\ ret = None
    /\ call = NoCall
    /\ step = NoStep

\* _draw_moment_in_diagram up to its loop
DrawBegin(moment, precision) ==
    /\ pc = "idle"
    /\ call' = [name |-> "_draw_moment_in_diagram", moment |-> moment,
                precision |-> precision, before |-> heap.diagram]
    /\ ops' = moment
    /\ op_index' = 0
    /\ k' = IF moment = <<>> THEN k ELSE width(heap.diagram)
    /\ pc' = IF moment = <<>> THEN "done" ELSE "draw"
    /\ heap' = [heap EXCEPT !.placed = <<>>]
    /\ UNCHANGED <<moments, strategy, i, ret, step>>

\* one turn of the loop over moment.operations
DrawStep ==
    /\ pc = "draw"
    /\ op_index < Len(ops)
    /\ LET op == ops[op_index + 1]
           indices == {Row(op.qubits[j]) : j \in 1..Len(op.qubits)}
           x == available_column(heap.diagram, k, MinOf(indices), MaxOf(indices))
       IN  /\ heap' = [diagram |-> draw_operation(heap.diagram, op, k, call.precision),
                       placed |-> Append(heap.placed,
                                         [x |-> x, y1 |-> MinOf(indices),
                                          y2 |-> MaxOf(indices)])]
           /\ step' = [n |-> step.n + 1, loop |-> "draw", op |-> op, x |-> x,
                       before |-> heap.diagram]
    /\ op_index' = op_index + 1
    /\ UNCHANGED <<moments, pc, ops, k, strategy, i, ret, call>>

DrawReturn ==
    /\ pc = "draw"
    /\ op_index = Len(ops)
    /\ pc' = "done"
    /\ UNCHANGED <<moments, ops, op_index, k, strategy, i, ret, call, step, heap>>

NextDiagram ==
    \/ /\ pc = "idle"
       /\ \E moment \in DiagramMoments, precision \in Precisions :
              DrawBegin(moment, precision)
    \/ DrawStep
    \/ DrawReturn

SpecDiagram == InitDiagram /\ [][NextDiagram]_vars

Drawn == pc \in {"draw", "done"} /\ step.n > 0 /\ step.loop = "draw"

Free(diagram, x, y1, y2) == \A y \in y1..y2 : ~content_present(diagram, x, y)

\* the text of a cell, <<>> for a cell never written
CellText(diagram, x, y) ==
    IF <<x, y>> \in Cells(diagram) THEN diagram.entries[<<x, y>>] ELSE <<>>

----------------------------------------------------------------------------
(* C25: every operation of a moment is drawn in the leftmost column x at   *)
(* or right of the diagram's width at the start of the moment in which all *)
(* rows from its topmost to its bottommost qubit are free, so two          *)
(* operations of one moment with overlapping row ranges never share a      *)
(* column; the formatted exponent (none for exponent 1, '-1' for -1) is    *)
(* appended to the operation's last wire label, in the cell of the row of  *)
(* the operation's last qubit.                                             *)
C25_LeftmostColumnAndExponent ==
    Drawn =>
        LET op == step.op
            drawn == heap.placed[Len(heap.placed)]
            last == Len(op.qubits)
            exponent == formatted_exponent(op.exponent, call.precision)
            shown == IF exponent = None THEN <<>> ELSE <<Caret(exponent)>>
        IN  /\ step.x >= width(call.before)
            /\ Free(step.before, step.x, drawn.y1, drawn.y2)
            /\ \A x \in width(call.before)..(step.x - 1) :
                   ~Free(step.before, x, drawn.y1, drawn.y2)
            /\ \A p, q \in 1..Len(heap.placed) :
                   (p # q /\ heap.placed[p].y1 <= heap.placed[q].y2
                          /\ heap.placed[q].y1 <= heap.placed[p].y2)
                       => heap.placed[p].x # heap.placed[q].x
            /\ IsOne(op.exponent) => exponent = None
            /\ IsMinusOne(op.exponent) => exponent = Text(<<"-", "1">>)
            /\ \A j \in 1..last :
                   CellText(heap.diagram, step.x, Row(op.qubits[j])) =
                       <<wire_symbols(op)[j]>> \o (IF j = last THEN shown ELSE <<>>)

----------------------------------------------------------------------------
(* Circuit.clear_operations_touching, and the four mutating calls together *)

\* Moment.without_operations_touching(qubits)
without_operations_touching(m, qubits) ==
    SelectSeq(m, LAMBDA op : op.qubits \cap qubits = {})

\* Faulty variant: every moment is cleared, whatever indexes were given.
clear_operations_touching_EveryMoment(ms, qubits, moment_indices) ==
    [j \in 1..Len(ms) |-> without_operations_touching(ms[j], qubits)]

\* lines 507-521; moment_indices is a list of indexes handled in turn, and
\* an index outside the circuit is skipped
RECURSIVE clear_operations_touching(_, _, _)
clear_operations_touching(ms, qubits, moment_indices) ==
    IF moment_indices = <<>> THEN ms
    ELSE LET index == Head(moment_indices)
             cleared == IF 0 <= index /\ index < Len(ms)
                        THEN [ms EXCEPT ![index + 1] =
                                 without_operations_touching(@, qubits)]
                        ELSE ms
         IN  clear_operations_touching(cleared, qubits, Tail(moment_indices))

ClearOperationsTouching(qubits, moment_indices) ==
    /\ pc = "idle"
    /\ call' = [name |-> "clear_operations_touching", qubits |-> qubits,
                moment_indices |-> moment_indices, before |-> moments]
    /\ moments' = clear_operations_touching(moments, qubits, moment_indices)
    /\ ret' = None
    /\ pc' = "done"
    /\ UNCHANGED <<ops, op_index, k, strategy, i, step, heap>>

\* range(lo, hi) for bounds from one below the circuit to one above it
IndexRanges ==
    {[j \in 1..(hi - lo) |-> lo + j - 1] : lo \in -1..Len(moments),
                                           hi \in 0..(Len(moments) + 1)}

NextMutate ==
    \/ Next
    \/ /\ pc = "idle"
       /\ \E qubits \in SUBSET Qubits, moment_indices \in IndexRanges :
              ClearOperationsTouching(qubits, moment_indices)

SpecMutate == Init /\ [][NextMutate]_vars

----------------------------------------------------------------------------
(* C26: starting from a circuit whose moments are each qubit-disjoint,     *)
(* after any sequence of insert (any strategy), append, insert_into_range  *)
(* and clear_operations_touching calls, and at every point inside them,    *)
(* every moment is qubit-disjoint, and no call attempts to add an          *)
(* operation to a moment that already touches one of its qubits: no        *)
(* placement fails with an overlap error.                                  *)
C26_MomentsStayDisjoint ==
    /\ \A j \in 1..Len(moments) : Disjoint(moments[j])
    /\ ret # Raise("ValueError")
    /\ (step.n > 0 /\ step.loop \in {"insert", "range"} /\ step.p >= 0
            /\ step.p < Len(moments)
            /\ \E y \in 1..Len(moments[step.p + 1]) :
                   moments[step.p + 1][y] = step.op) =>
           \A y \in 1..Len(moments[step.p + 1]) :
               moments[step.p + 1][y].tag # step.op.tag
                   => moments[step.p + 1][y].qubits \cap step.op.qubits = {}
    /\ (pc = "done" /\ call.name = "clear_operations_touching") =>
           /\ Len(moments) = Len(call.before)
           /\ \A j \in 1..Len(moments) :
                  moments[j] =
                      IF \E l \in 1..Len(call.moment_indices) :
                             call.moment_indices[l] = j - 1
                      THEN without_operations_touching(call.before[j], call.qubits)
                      ELSE call.before[j]

\* clear_operations_touching removed an operation from a moment that keeps
\* another one, in a circuit built by earlier calls.
C26_Witness ==
    /\ pc = "done"
    /\ call.name = "clear_operations_touching"
    /\ \E j \in 1..Len(moments) :
           /\ Len(call.before[j]) = 2
           /\ Len(moments[j]) = 1
    /\ \E j \in 1..Len(moments) : moments[j] = call.before[j] /\ moments[j] # <<>>

----------------------------------------------------------------------------
(* to_unitary_matrix: the product the conversion computes                  *)

MaxComposeLen == 2

\* np.eye(n)
eye(n) ==
    NdArray([r \in 0..(n - 1) |-> [c \in 0..(n - 1) |-> IF r = c THEN 1 ELSE 0]])

\* np.matmul(a, b) of two square arrays of one size
matmul(a, b) ==
    LET n == Cardinality(DOMAIN a.val)
    IN  NdArray([r \in 0..(n - 1) |-> [c \in 0..(n - 1) |->
            Sum([t \in 1..n |-> a.val[r][t - 1] * b.val[t - 1][c]])]])

\* all_qubits(), line 525, of a circuit whose operations hold qubit tuples
all_qubits(ms) ==
    UNION {{all_operations(ms)[j].qubits[t] :
               t \in 1..Len(all_operations(ms)[j].qubits)} :
           j \in 1..Len(all_operations(ms))}

\* QubitOrder.DEFAULT.order_for(qubits): the qubits sorted by name
order_for(qubits) == SelectSeq(QubitNames, LAMBDA q : q \in qubits)

\* The same circuit with each operation's qubits as a set, as the queries
\* on moments read them.
TouchedSets(ms) ==
    [j \in 1..Len(ms) |-> [y \in 1..Len(ms[j]) |->
        GateOperation(ms[j][y].tag, ms[j][y].gate,
                      {ms[j][y].qubits[t] : t \in 1..Len(ms[j][y].qubits)})]]

\* Operations on the qubits a and b: X on either, a measurement of b,
\* CNOT in both directions and a composite of two CNOTs.
ComposeOps ==
    {GateOperation(0, "PauliX", <<q>>) : q \in Qubits}
        \cup {GateOperation(0, "CNOT", qs) : qs \in Tuples(Qubits, 2, 2)}
        \cup {GateOperation(0, "measure", <<"b">>),
              GateOperation(0, "ladder", <<"a", "b">>)}

ComposeMoments ==
    {m \in UNION {[1..n -> ComposeOps] : n \in 0..Cardinality(Qubits)} :
        Disjoint(TouchedSets(<<m>>)[1])}

PresentQubits == {{}, {"b"}}

\* _operation_to_unitary_matrix(op, qubit_map) for every operation with a
\* matrix and every qubit order that holds its qubits
EmbeddedMatrices ==
    [op \in {o \in ComposeOps : has_known_matrix(o)},
     qs \in {order_for(S) : S \in SUBSET Qubits} |->
        IF \A t \in 1..Len(op.qubits) : \E j \in 1..Len(qs) : qs[j] = op.qubits[t]
        THEN operation_to_unitary_matrix(op, QubitMap(qs))
        ELSE None]

\* Faulty variant: the matrix of the operation is multiplied on the right.
accumulate_RightMultiplied(total, op, qs) == matmul(total, EmbeddedMatrices[op, qs])

\* lines 808-809: mat = _operation_to_unitary_matrix(op, qubit_map, ext);
\* total = np.matmul(mat, total)
accumulate(total, op, qs) == matmul(EmbeddedMatrices[op, qs], total)

InitCompose ==
    /\ moments \in CircuitsOf(ComposeMoments, MaxComposeLen)
    /\ pc = "idle"
    /\ ops = <<>>
    /\ op_index = 0
    /\ k = 0
    /\ strategy = "NEW_THEN_INLINE"
    /\ i = 0
    /\ ret = None
    /\ call = NoCall
    /\ step = NoStep
    /\ heap = NoHeap

\* to_unitary_matrix, lines 567-574, up to the loop of
\* _operations_to_unitary_matrix, line 801
ToUnitaryMatrixBegin(qubits_that_should_be_present, ignore_terminal_measurements) ==
    LET qs == order_for(all_qubits(moments) \cup qubits_that_should_be_present)
        matrix_ops == flatten_to_known_matrix_ops(all_operations(moments))
    IN  /\ pc = "idle"
        /\ call' = [name |-> "to_unitary_matrix",
                    qubits_that_should_be_present |-> qubits_that_should_be_present,
                    ignore_terminal_measurements |-> ignore_terminal_measurements]
        /\ IF ~are_all_measurements_terminal(TouchedSets(moments))
           THEN /\ ret' = Raise("TypeError")
                /\ pc' = "done"
                /\ heap' = heap
           ELSE /\ ret' = None
                /\ pc' = "multiplying"
                /\ heap' = [iter_ops |-> matrix_ops, qs |-> qs,
                            total |-> eye(Pow2(Len(qs)))]
        /\ UNCHANGED <<moments, ops, op_index, k, strategy, i, step>>

\* One round of the loop of _operations_to_unitary_matrix, lines 802-809,
\* or its return, line 810
MultiplyStep ==
    /\ pc = "multiplying"
    /\ IF heap.iter_ops = <<>>
       THEN /\ ret' = heap.total
            /\ pc' = "done"
            /\ heap' = heap
       ELSE LET op == Head(heap.iter_ops)
            IN  IF \/ op = TypeError
                   \/ is_measurement(op) /\ ~call.ignore_terminal_measurements
                THEN /\ ret' = Raise("TypeError")
                     /\ pc' = "done"
                     /\ heap' = heap
                ELSE /\ heap' = [heap EXCEPT
                                   !.iter_ops = Tail(@),
                                   !.total = IF is_measurement(op) THEN @
                                             ELSE accumulate(@, op, heap.qs)]
                     /\ UNCHANGED <<ret, pc>>
    /\ UNCHANGED <<moments, ops, op_index, k, strategy, i, step, call>>

NextCompose ==
    \/ /\ pc = "idle"
       /\ \E qubits_that_should_be_present \in PresentQubits,
             ignore_terminal_measurements \in BOOLEAN :
              ToUnitaryMatrixBegin(qubits_that_should_be_present,
                                   ignore_terminal_measurements)
    \/ MultiplyStep

SpecCompose == InitCompose /\ [][NextCompose]_vars

Composed == pc = "done" /\ call.name = "to_unitary_matrix" /\ ret.kind = "ndarray"

\* o1..on: the operations in circuit order, decompositions flattened,
\* that have a matrix
KnownMatrixOps(ms) ==
    SelectSeq(flatten_to_known_matrix_ops(all_operations(ms)), has_known_matrix)

\* The basis state an operation's matrix sends basis state x to: every
\* matrix here is a permutation matrix.
Image(op, qs, x) ==
    CHOOSE r \in DOMAIN EmbeddedMatrices[op, qs].val :
        EmbeddedMatrices[op, qs].val[r][x] = 1

\* The basis state reached from x by applying the operations one after
\* another, the first of the sequence first.
RECURSIVE Run(_, _, _)
Run(known, qs, x) ==
    IF known = <<>> THEN x ELSE Run(Tail(known), qs, Image(Head(known), qs, x))

\* The array is the permutation matrix of applying the operations in turn.
IsProductOf(array, known, qs, size) ==
    /\ DOMAIN array.val = 0..(size - 1)
    /\ \A x \in 0..(size - 1) :
           LET reached == Run(known, qs, x)
           IN  /\ DOMAIN array.val[x] = 0..(size - 1)
               /\ \A r \in 0..(size - 1) :
                      array.val[r][x] = IF r = reached THEN 1 ELSE 0

----------------------------------------------------------------------------
(* C27: the matrix to_unitary_matrix returns is M(on) ... M(o2) M(o1) for  *)
(* the known-matrix operations o1..on in circuit order (moment-major, then *)
(* the moment's own order, decompositions flattened): its size is 2^n for  *)
(* n the number of qubits of the circuit and of                            *)
(* qubits_that_should_be_present together, it sends each basis state to    *)
(* the one reached by applying o1, then o2, ... then on, and it is the     *)
(* identity for an empty circuit; inside the loop the running total is     *)
(* that product for the operations taken so far.                           *)
C27_ProductInCircuitOrder ==
    LET qs == order_for(all_qubits(moments)
                            \cup call.qubits_that_should_be_present)
        size == Pow2(Cardinality(all_qubits(moments)
                                   \cup call.qubits_that_should_be_present))
        known == KnownMatrixOps(moments)
    IN  /\ Composed =>
               /\ IsProductOf(ret, known, qs, size)
               /\ moments = <<>> => ret = eye(size)
        /\ pc = "multiplying" =>
               LET left == Len(SelectSeq(heap.iter_ops, has_known_matrix))
               IN  IsProductOf(heap.total, SubSeq(known, 1, Len(known) - left),
                               qs, size)

\* The conversion of a circuit whose two moments hold CNOTs in opposite
\* directions: the product taken in the other order is a different
\* matrix.
C27_Witness ==
    /\ Composed
    /\ Len(moments) = 2
    /\ moments[1] = <<GateOperation(0, "CNOT", <<"a", "b">>)>>
    /\ moments[2] = <<GateOperation(0, "CNOT", <<"b", "a">>)>>
    /\ ret.val[3][1] = 1
    /\ ret.val[2][1] = 0

\* The conversion of a circuit on the qubit a alone, with the qubit b asked
\* for, has returned a matrix on two qubits.
C27_WitnessPresent ==
    /\ Composed
    /\ all_qubits(moments) = {"a"}
    /\ call.qubits_that_should_be_present = {"b"}
    /\ ret.val[2][0] = 1

\* The conversion of a circuit of one composite operation has multiplied
\* the matrices of its two parts.
C27_WitnessDecomposed ==
    /\ Composed
    /\ Len(moments) = 1
    /\ moments[1] = <<GateOperation(0, "ladder", <<"a", "b">>)>>
    /\ Len(KnownMatrixOps(moments)) = 2
    /\ ret # eye(4)

----------------------------------------------------------------------------
(* C28: for a gate with a detected period p and a numeric exponent e, the  *)
(* canonical exponent used for equality and hashing is e shifted by an     *)
(* integer multiple of p into the range (-p/2, p/2].                       *)
C28_CanonicalInSymmetricRange ==
    EqCompared =>
        \A g \in {"self", "other"} :
            LET p == period(call.before[g])
                e == heap[g].exponent
                c == heap[g].canonical_exponent_cached
            IN  (Numeric(heap[g]) /\ p # None /\ p.m # 0 /\ Congruent(c, e, p)) =>
                    LET half == FracDiv(ToFraction(p), Fraction(2, 1))
                    IN  /\ FracLess(FracMul(Fraction(-1, 1), half), ToFraction(c))
                        /\ ~FracLess(half, ToFraction(c))

----------------------------------------------------------------------------
(* MergeSingleQubitGates.optimization_at                                   *)

MaxMergeLen == 3

\* Circuit.operation_at, circuit.py lines 301-320, for operations that
\* hold qubit tuples
operation_at(ms, qubit, moment_index) ==
    IF ~(0 <= moment_index /\ moment_index < Len(ms)) THEN None
    ELSE LET on == SelectSeq(ms[moment_index + 1],
                             LAMBDA op : \E t \in 1..Len(op.qubits) :
                                             op.qubits[t] = qubit)
         IN  IF on = <<>> THEN None ELSE Head(on)

\* protocols.unitary(op, default)
unitary_of(op, default) ==
    IF has_known_matrix(op) THEN NdArray(matrix(op)) ELSE default

SingleQubitMatrixGate(mat, qubit) ==
    [tag |-> 0, gate |-> "SingleQubitMatrixGate", matrix |-> mat,
     qubits |-> <<qubit>>]

\* Faulty variant: the matrix of the operation is multiplied on the right.
dot_LaterOnTheRight(op, mat) == matmul(mat, unitary_of(op, None))

\* line 79: np.dot(protocols.unitary(op), matrix)
dot(op, mat) == matmul(unitary_of(op, None), mat)

PointOptimizationSummary(clear_span, clear_qubits, new_operations) ==
    [kind |-> "PointOptimizationSummary", clear_span |-> clear_span,
     clear_qubits |-> clear_qubits, new_operations |-> new_operations]

\* lines 64-67: the two tests that leave the loop of _scan_single_qubit_ops
scan_breaks(op) == Len(op.qubits) # 1 \/ unitary_of(op, None) = None

\* Operations on the qubits a and b: X, Z and a measurement of a, X on b,
\* and a CNOT.
MergeOps ==
    {GateOperation(0, g, <<"a">>) : g \in {"PauliX", "PauliZ", "measure"}}
        \cup {GateOperation(0, "PauliX", <<"b">>),
              GateOperation(0, "CNOT", <<"a", "b">>)}

MergeMoments ==
    {m \in UNION {[1..n -> MergeOps] : n \in 0..Cardinality(Qubits)} :
        /\ Disjoint(TouchedSets(<<m>>)[1])
        /\ Len(m) = 2 => m[1].qubits = <<"a">>}

InitMerge ==
    /\ moments \in CircuitsOf(MergeMoments, MaxMergeLen)
    /\ pc = "idle"
    /\ ops = <<>>
    /\ op_index = 0
    /\ k = 0
    /\ strategy = "NEW_THEN_INLINE"
    /\ i = 0
    /\ ret = None
    /\ call = NoCall
    /\ step = NoStep
    /\ heap = NoHeap

\* optimization_at, lines 34-43, up to the loop of _scan_single_qubit_ops
OptimizationAt(index, op) ==
    /\ pc = "idle"
    /\ call' = [name |-> "optimization_at", index |-> index, op |-> op]
    /\ IF Len(op.qubits) # 1
       THEN /\ ret' = None
            /\ pc' = "done"
            /\ heap' = heap
       ELSE /\ ret' = ret
            /\ pc' = "scanning"
            /\ heap' = [qubit |-> op.qubits[1], index |-> Some(index),
                        indices |-> <<>>, operations |-> <<>>]
    /\ UNCHANGED <<moments, ops, op_index, k, strategy, i, step>>

\* One round of the loop of _scan_single_qubit_ops, lines 62-70
ScanStep ==
    /\ pc = "scanning"
    /\ heap.index # None
    /\ LET op == operation_at(moments, heap.qubit, heap.index.val)
       IN  IF scan_breaks(op)
           THEN /\ pc' = "scanned"
                /\ heap' = heap
           ELSE /\ pc' = pc
                /\ heap' = [heap EXCEPT
                              !.indices = Append(@, heap.index.val),
                              !.operations = Append(@, op),
                              !.index = next_moment_operating_on(
                                            TouchedSets(moments), {heap.qubit},
                                            heap.index.val + 1, None)]
    /\ UNCHANGED <<moments, ops, op_index, k, strategy, i, step, call, ret>>

\* The loop is left, line 71, and optimization_at goes on, lines 44-48,
\* up to the loop of _merge_rotations, line 77
ScanReturn ==
    /\ pc = "scanned" \/ (pc = "scanning" /\ heap.index = None)
    /\ IF heap.operations = <<>>
       THEN /\ ret' = None
            /\ pc' = "done"
            /\ step' = step
       ELSE /\ ret' = ret
            /\ pc' = "merging"
            /\ step' = [n |-> 0, loop |-> "_merge_rotations",
                        todo |-> heap.operations, matrix |-> eye(2)]
    /\ UNCHANGED <<moments, ops, op_index, k, strategy, i, call, heap>>

\* One round of the loop of _merge_rotations, lines 78-79
MergeStep ==
    /\ pc = "merging"
    /\ step.todo # <<>>
    /\ step' = [step EXCEPT !.n = @ + 1, !.todo = Tail(@),
                            !.matrix = dot(Head(step.todo), @)]
    /\ UNCHANGED <<moments, ops, op_index, k, strategy, i, call, heap, ret, pc>>

\* _merge_rotations returns, line 81, and optimization_at does, lines 50-53
MergeReturn ==
    /\ pc = "merging"
    /\ step.todo = <<>>
    /\ ret' = PointOptimizationSummary(
                  MaxOf({heap.indices[j] : j \in 1..Len(heap.indices)})
                      + 1 - call.index,
                  call.op.qubits,
                  <<SingleQubitMatrixGate(step.matrix, call.op.qubits[1])>>)
    /\ pc' = "done"
    /\ UNCHANGED <<moments, ops, op_index, k, strategy, i, call, heap, step>>

NextMerge ==
    \/ /\ pc = "idle"
       /\ \E index \in 0..(Len(moments) - 1) :
              \E y \in 1..Len(moments[index + 1]) :
                  OptimizationAt(index, moments[index + 1][y])
    \/ ScanStep
    \/ ScanReturn
    \/ MergeStep
    \/ MergeReturn

\* The scheduler runs the loops: a round that can be taken is taken.
SpecMerge ==
    /\ InitMerge
    /\ [][NextMerge]_vars
    /\ WF_vars(ScanStep \/ ScanReturn \/ MergeStep \/ MergeReturn)

Merging == call.name = "optimization_at" /\ pc # "idle"

\* The operation on the qubit in the moment is on that qubit alone and has
\* a unitary.
Mergeable(ms, qubit, j) ==
    /\ Len(operation_at(ms, qubit, j).qubits) = 1
    /\ has_known_matrix(operation_at(ms, qubit, j))

\* The moments from index on that hold a mergeable operation on the qubit
\* with no other kind of operation on the qubit between index and them.
MaximalRun(ms, qubit, index) ==
    {j \in index..(Len(ms) - 1) :
        /\ operation_at(ms, qubit, j) # None
        /\ \A j2 \in index..j :
               operation_at(ms, qubit, j2) # None => Mergeable(ms, qubit, j2)}

\* The members of a set of integers in increasing order.
RECURSIVE Ascending(_)
Ascending(S) ==
    IF S = {} THEN <<>>
    ELSE LET least == CHOOSE x \in S : \A y \in S : x <= y
         IN  <<least>> \o Ascending(S \ {least})

\* Where the operations, applied one after another from the first on,
\* send the basis state x: <<basis state, sign>>.  The matrices of X and
\* Z have one entry of 1 or -1 in each column.
RECURSIVE Sent(_, _, _)
Sent(operations, x, sign) ==
    IF operations = <<>> THEN <<x, sign>>
    ELSE LET mat == matrix(Head(operations))
             r == CHOOSE r \in 0..1 : mat[r][x] # 0
         IN  Sent(Tail(operations), r, sign * mat[r][x])

\* The array is M(on) ... M(o2) M(o1) for the operations o1..on.
LaterOnTheLeft(array, operations) ==
    /\ DOMAIN array.val = 0..1
    /\ \A x \in 0..1 :
           /\ DOMAIN array.val[x] = 0..1
           /\ \A r \in 0..1 :
                  array.val[r][x] =
                      IF r = Sent(operations, x, 1)[1]
                      THEN Sent(operations, x, 1)[2] ELSE 0

C29_Collected ==
    (Merging /\ pc = "done") =>
        LET qubit == call.op.qubits[1]
            run == Ascending(MaximalRun(moments, qubit, call.index))
        IN  /\ ret = None <=>
                   \/ Len(call.op.qubits) # 1
                   \/ unitary_of(operation_at(moments, qubit, call.index), None)
                          = None
            /\ ret # None =>
                   /\ heap.indices = run
                   /\ heap.indices[1] = call.index
                   /\ \A j \in 1..(Len(run) - 1) : heap.indices[j] < heap.indices[j + 1]
                   /\ heap.operations =
                          [j \in 1..Len(run) |-> operation_at(moments, qubit, run[j])]
                   /\ ret.clear_span = run[Len(run)] + 1 - call.index
                   /\ ret.clear_qubits = <<qubit>>
                   /\ Len(ret.new_operations) = 1
                   /\ ret.new_operations[1].qubits = <<qubit>>
                   /\ ret.new_operations[1].gate = "SingleQubitMatrixGate"
                   /\ LaterOnTheLeft(ret.new_operations[1].matrix, heap.operations)

(* C29: optimization_at returns None for an operation on more than one     *)
(* qubit or when the operation at index has no unitary; otherwise the scan *)
(* terminates and collects exactly the maximal run of operations on the    *)
(* qubit, in strictly increasing moment order from index on, that are      *)
(* single-qubit and have a unitary, and the summary has clear_span = last  *)
(* collected index + 1 - index, clear_qubits = the qubit, and one          *)
(* replacement operation whose matrix is the product of the run with the   *)
(* later operations multiplied on the left.                                *)
C29_ScanTerminatesWithMaximalRun ==
    /\ []C29_Collected
    /\ (pc \in {"scanning", "scanned", "merging"}) ~> (pc = "done")

\* A run of X then Z in the first two moments ended by a CNOT in the
\* third: the two are merged into ZX, which is not XZ.
C29_Witness ==
    /\ Merging
    /\ pc = "done"
    /\ ret # None
    /\ call.index = 0
    /\ Len(moments) = 3
    /\ heap.indices = <<0, 1>>
    /\ heap.operations = <<GateOperation(0, "PauliX", <<"a">>),
                           GateOperation(0, "PauliZ", <<"a">>)>>
    /\ moments[3] = <<GateOperation(0, "CNOT", <<"a", "b">>)>>
    /\ ret.clear_span = 2
    /\ ret.new_operations[1].matrix.val[0][1] = 1
    /\ ret.new_operations[1].matrix.val[1][0] = -1

\* The call on a measurement has returned None.
C29_WitnessNone ==
    /\ Merging
    /\ pc = "done"
    /\ call.op.gate = "measure"
    /\ ret = None

----------------------------------------------------------------------------
(* ConvertToPauliStringPhasors: convert and optimization_at.  Operations   *)
(* are objects: id tells one object from another, the operation handed in  *)
(* has id 0 and the objects made during the call are numbered from 1.      *)

Object(id, class, gate, qubits, pauli_string, half_turns) ==
    [kind |-> "op", id |-> id, class |-> class, gate |-> gate, qubits |-> qubits,
     pauli_string |-> pauli_string, half_turns |-> half_turns]

\* PauliStringPhasor(pauli_string, half_turns=half_turns); its qubits are
\* those of the Pauli string
PauliStringPhasor(id, pauli_string, half_turns) ==
    Object(id, "PauliStringPhasor", "PauliStringPhasor",
           [j \in 1..Len(pauli_string) |-> pauli_string[j][1]],
           pauli_string, half_turns)

\* ops.PauliString.from_single(qubit, pauli)
from_single(qubit, pauli) == <<<<qubit, pauli>>>>

\* decompositions.single_qubit_matrix_to_pauli_rotations(mat, tolerance):
\* (pauli, half_turns) pairs, none for the identity, one for a Pauli
\* matrix, three for another matrix
single_qubit_matrix_to_pauli_rotations(mat) ==
    CASE mat = IdentityMatrix -> <<>>
      [] mat = PauliXMatrix -> <<<<"X", 1>>>>
      [] mat = PauliZMatrix -> <<<<"Z", 1>>>>
      [] OTHER -> <<<<"Z", 1>>, <<"X", 2>>, <<"Z", 3>>>>

Generator(items) == [kind |-> "generator", items |-> items]

List(items) == [kind |-> "list", items |-> items]

\* lines 55-62; the objects the generator makes are numbered from next_id
matrix_to_pauli_string_phasors(mat, qubit, next_id) ==
    LET rotations == single_qubit_matrix_to_pauli_rotations(mat)
    IN  Generator([j \in 1..Len(rotations) |->
            PauliStringPhasor(next_id + j - 1,
                              from_single(qubit, rotations[j][1]),
                              rotations[j][2])])

\* Faulty variant: the number of qubits is not looked at.
convert_one_AnyArity(op, ignore_failures, next_id) ==
    IF op.class = "PauliStringPhasor" THEN op
    ELSE IF has_known_matrix(op)
         THEN matrix_to_pauli_string_phasors(matrix(op), op.qubits[1], next_id)
    ELSE IF ignore_failures THEN op
    ELSE Raise("TypeError")

\* _convert_one, lines 64-80
convert_one(op, ignore_failures, next_id) ==
    IF op.class = "PauliStringPhasor" THEN op
    ELSE IF has_known_matrix(op) /\ Len(op.qubits) = 1
         THEN matrix_to_pauli_string_phasors(matrix(op), op.qubits[1], next_id)
    ELSE IF ignore_failures THEN op
    ELSE Raise("TypeError")

\* The operations handed in: PauliStringPhasors on one and on two qubits,
\* gates with a matrix on one qubit and on two, and gates without.
PhasorOps ==
    {PauliStringPhasor(0, ps, 1) :
        ps \in {from_single("a", "X"), <<<<"a", "Z">>, <<"b", "X">>>>}}
      \cup {Object(0, "GateOperation", g, <<q>>, None, None) :
               g \in {"PauliX", "PauliZ", "I", "X", "measure"}, q \in Qubits}
      \cup {Object(0, "GateOperation", g, <<"a", "b">>, None, None) :
               g \in {"CNOT", "opaque"}}

\* __init__, lines 38-53
InitPhasors ==
    /\ heap \in {[ignore_failures |-> b] : b \in BOOLEAN}
    /\ moments = <<>>
    /\ pc = "idle"
    /\ ops = <<>>
    /\ op_index = 0
    /\ k = 0
    /\ strategy = "NEW_THEN_INLINE"
    /\ i = 0
    /\ ret = None
    /\ call = NoCall
    /\ step = NoStep

\* convert(op) or optimization_at(circuit, index, op) is entered, lines 82
\* and 90; step.stack holds the list comprehensions of line 86 that are
\* under way, the innermost first
ConvertBegin(name, op) ==
    /\ pc = "idle"
    /\ call' = [name |-> name, op |-> op]
    /\ step' = [n |-> 1, loop |-> "convert", arg |-> op, value |-> None,
                stack |-> <<>>, next_id |-> 1]
    /\ pc' = "converting"
    /\ UNCHANGED <<moments, ops, op_index, k, strategy, i, ret, heap>>

\* convert(step.arg) runs lines 83-86 up to its first inner call
ConvertCall ==
    /\ pc = "converting"
    /\ LET converted == convert_one(step.arg, heap.ignore_failures, step.next_id)
       IN  IF converted = Raise("TypeError")
           THEN /\ ret' = converted
                /\ pc' = "done"
                /\ step' = step
           ELSE IF converted.kind = "op"
           THEN /\ pc' = "returning"
                /\ step' = [step EXCEPT !.value = converted]
                /\ ret' = ret
           ELSE IF converted.items = <<>>
           THEN /\ pc' = "returning"
                /\ step' = [step EXCEPT !.value = List(<<>>)]
                /\ ret' = ret
           ELSE /\ pc' = "converting"
                /\ step' = [step EXCEPT
                              !.n = @ + 1,
                              !.arg = Head(converted.items),
                              !.next_id = @ + Len(converted.items),
                              !.stack = <<[todo |-> Tail(converted.items),
                                           out |-> <<>>]>> \o @]
                /\ ret' = ret
    /\ UNCHANGED <<moments, ops, op_index, k, strategy, i, call, heap>>

\* A call of convert hands step.value to the list comprehension it was
\* made from, which goes on with its next element or returns its list
ConvertReturn ==
    /\ pc = "returning"
    /\ step.stack # <<>>
    /\ LET top == Head(step.stack)
           out == Append(top.out, step.value)
       IN  IF top.todo = <<>>
           THEN step' = [step EXCEPT !.value = List(out), !.stack = Tail(@)]
                /\ pc' = pc
           ELSE step' = [step EXCEPT
                           !.n = @ + 1,
                           !.arg = Head(top.todo),
                           !.stack = <<[todo |-> Tail(top.todo), out |-> out]>>
                                         \o Tail(@)]
                /\ pc' = "converting"
    /\ UNCHANGED <<moments, ops, op_index, k, strategy, i, call, heap, ret>>

\* The outermost convert returns; optimization_at goes on, lines 91-97
ConvertDone ==
    /\ pc = "returning"
    /\ step.stack = <<>>
    /\ ret' = IF call.name = "convert" THEN step.value
              ELSE IF step.value = call.op THEN None
              ELSE PointOptimizationSummary(1, call.op.qubits, step.value)
    /\ pc' = "done"
    /\ UNCHANGED <<moments, ops, op_index, k, strategy, i, call, heap, step>>

NextPhasors ==
    \/ /\ pc = "idle"
       /\ \E name \in {"convert", "optimization_at"}, op \in PhasorOps :
              ConvertBegin(name, op)
    \/ ConvertCall
    \/ ConvertReturn
    \/ ConvertDone

\* The interpreter runs the call: a step that can be taken is taken.
SpecPhasors ==
    /\ InitPhasors
    /\ [][NextPhasors]_vars
    /\ WF_vars(ConvertCall \/ ConvertReturn \/ ConvertDone)

Converted == pc = "done" /\ call.name \in {"convert", "optimization_at"}

\* The value is a list of PauliStringPhasor objects made during the call,
\* each on the qubit alone.
PhasorsOn(value, qubit) ==
    /\ value.kind = "list"
    /\ \A j \in 1..Len(value.items) :
           /\ value.items[j].kind = "op"
           /\ value.items[j].class = "PauliStringPhasor"
           /\ value.items[j].qubits = <<qubit>>
           /\ value.items[j].id # 0

C30_Returned ==
    Converted =>
        LET op == call.op
            phasor == op.class = "PauliStringPhasor"
            matrix1 == ~phasor /\ has_known_matrix(op) /\ Len(op.qubits) = 1
            fails == ~phasor /\ ~matrix1 /\ ~heap.ignore_failures
            unchanged == phasor \/ (~matrix1 /\ heap.ignore_failures)
        IN  /\ fails <=> ret = Raise("TypeError")
            /\ ~fails =>
                   /\ unchanged <=> step.value = op
                   /\ matrix1 => PhasorsOn(step.value, op.qubits[1])
                   /\ call.name = "convert" => ret = step.value
                   /\ call.name = "optimization_at" =>
                          /\ ret = None <=> step.value = op
                          /\ ret # None =>
                                 ret = PointOptimizationSummary(
                                           1, op.qubits, step.value)

(* C30: convert returns a PauliStringPhasor as the same object, replaces a *)
(* 1-qubit known-matrix operation by PauliStringPhasor operations on the   *)
(* same qubit, and for any other operation returns it unchanged when       *)
(* ignore_failures is set and raises TypeError when it is not; the         *)
(* recursion terminates; optimization_at returns None exactly when convert *)
(* returned its input unchanged, otherwise a summary with clear_span 1 and *)
(* clear_qubits equal to the operation's qubits.                           *)
C30_ConvertTerminatesAsStated ==
    /\ []C30_Returned
    /\ (pc \in {"converting", "returning"}) ~> (pc = "done")

\* optimization_at on a 1-qubit operation with a matrix that takes three
\* rotations has returned a summary of three PauliStringPhasors.
C30_Witness ==
    /\ Converted
    /\ call.name = "optimization_at"
    /\ call.op.gate = "X"
    /\ ret # None
    /\ ret.kind = "PointOptimizationSummary"
    /\ Len(ret.new_operations.items) = 3
    /\ ret.clear_qubits = call.op.qubits

\* optimization_at on a two-qubit PauliStringPhasor has returned None.
C30_WitnessUnchanged ==
    /\ Converted
    /\ call.name = "optimization_at"
    /\ call.op.class = "PauliStringPhasor"
    /\ Len(call.op.qubits) = 2
    /\ ret = None

\* convert on a CNOT has raised TypeError.
C30_WitnessRaised ==
    /\ Converted
    /\ call.name = "convert"
    /\ call.op.gate = "CNOT"
    /\ ret = Raise("TypeError")

====
